---- MODULE Spec2Model ----
(***************************************************************************)
(* Model of the MeshCore serial bridge (server/index.js): the command      *)
(* queue that serialises access to one companion radio, the startup        *)
(* handshake, the serial open/close/reopen cycle, the dispatcher that      *)
(* routes FromRadio frames to WebSocket and TCP clients, the push-replay   *)
(* buffer and the weather producer's ticks; and the frame codec            *)
(* (frame-parser.js) fed on its own.                                       *)
(*                                                                         *)
(* Every event-loop callback of the program is one action.  A promise      *)
(* continuation runs in the microtask queue of the callback that settles   *)
(* the promise, so it is part of that callback's action.                   *)
(***************************************************************************)
EXTENDS Integers, Sequences, FiniteSets, TLC

\* ------------------------------------------------------------------------
\* Bounds of the model
\* ------------------------------------------------------------------------
\* number of WebSocket connections accepted in a run (one TCP connection is)
NumWS == 1
\* number of commands enqueued in a run (command ids are 1..MaxCmds)
MaxCmds == 2
\* number of push frames the radio sends in a run (push ids are 1..MaxPush)
MaxPush == 1
\* number of entries of the push history file found at boot
MaxHist == 3
\* number of bytes fed to a frame parser in a run
MaxStream == 8
\* number of TCP sockets whose streams are followed
NumTCP == 2
\* number of WebSockets the polyfill port creates in a run
MaxSock == 3

\* ------------------------------------------------------------------------
\* Program constants
\* ------------------------------------------------------------------------
FRAME_INCOMING == 62
FRAME_OUTGOING == 60
FRAME_HEADER_LEN == 3
\* a byte holds 0 .. ByteMod - 1
ByteMod == 256
PUSH_BUFFER_SIZE == 2
\* delays of the timers, in milliseconds
SETTLE_MS == 500
STARTUP_TIMEOUT_MS == 5000
RECONNECT_MS == 5000

\* response codes (first payload byte of a FromRadio frame)
Ok == 0
ContactsStart == 2
Contact == 3
EndOfContacts == 4
SelfInfo == 5
ContactMsgRecv == 7
ChannelMsgRecv == 8
Advert == 128

STREAMING_RESPONSE_CODES == {ContactsStart, Contact, ContactMsgRecv, ChannelMsgRecv}

\* the codes the modelled radio sends
RadioCodes == {ContactsStart, Contact, EndOfContacts, SelfInfo, Advert}

isPushNotification(code) == code >= 128

\* ------------------------------------------------------------------------
\* Handles
\* ------------------------------------------------------------------------
\* a connection object; every accepted connection is a new object
WSHandles == 1..NumWS
TCPHandles == {NumWS + 1}
Handles == WSHandles \cup TCPHandles
\* the source of an internally generated command (weather)
NullSource == 0
\* the id under which the out-of-band AppStart write is logged
AppStartId == 0

NoCmd == [id |-> 0, source |-> NullSource, timer |-> "none"]
NoEv == [kind |-> "none", dir |-> 0, code |-> 0, ansId |-> -1, ansSrc |-> -1,
         writes |-> <<>>, sent |-> {}, hooked |-> FALSE, rel |-> 0,
         pushes |-> <<>>]

\* the id of a push frame received in an earlier run of the bridge
OldPush == 0
\* push frames: those of earlier runs and those of this run, in wire order
PushIds == {OldPush} \cup (1..MaxPush)

VARIABLES
  serial,           \* "none" | "opening" | "retry" | "open" | "lost"
  startupComplete,  \* the queue gate
  pendingResolve,   \* the armed startup hook: its expected code, or -1
  sq,               \* the startDeviceQuery coroutine: [pc, stale]
  commandQueue,     \* the waiters: Seq of [id, source]
  currentCommand,   \* the in-flight command [id, source, timer] or NoCmd
  drainPending,     \* a setImmediate(drainQueue) is queued
  clients,          \* handle -> "new" | "open" | "gone"
  replay,           \* WS handle -> "no" | "scheduled" | "done"
  pushBuffer,       \* Seq of push ids
  wx,               \* the weather tick: "stopped" | "off" | "idle" | "fetching"
  nextId,           \* next command id
  nextPush,         \* next push id
  radioPending,     \* commands the radio has received and not answered
  \* --- history variables, read by the properties only
  ev,               \* what the last step did
  outstanding,      \* queued commands written to serial and not released
  cmdTimers,        \* commands whose timeout timer is pending
  resetMark,        \* nextId at the last resetState
  lastWritten,      \* id of the last queued command written to serial
  sess,             \* "down" | "handshake" | "ready"
  recv,             \* handle -> push id -> copies received (capped at 2)
  dispatchedTo,     \* push id -> connections that were OPEN at its dispatch
  \* --- the FrameParser of the serial port, and a FrameParser fed on its own
  codec,            \* [buffer, frames, fed, chunks, built]
  \* --- persistence of the push buffer and the life of the process
  store,            \* [file, dirty, timer, exited, fatal]
  \* --- a pure function of the weather producer applied to an input
  calc,             \* [fn, arg, out]
  \* --- the TCP sockets with their parsers, and the commands they enqueue
  tcp,              \* [made, pending, parser, queue, written]
  \* --- the serial port of the WebSerial polyfill in the browser
  port              \* [opened, explicitClose, reconnecting, timer, timers, gaveUp, ws, socks]

vars == <<serial, startupComplete, pendingResolve, sq, commandQueue,
          currentCommand, drainPending, clients, replay, pushBuffer, wx,
          nextId, nextPush, radioPending,
          ev, outstanding, cmdTimers, resetMark, lastWritten, sess, recv, dispatchedTo,
          codec, store, calc, tcp, port>>

\* the variables of the bridge
bridgeVars == <<serial, startupComplete, pendingResolve, sq, commandQueue,
                currentCommand, drainPending, clients, replay, pushBuffer, wx,
                nextId, nextPush, radioPending,
                ev, outstanding, cmdTimers, resetMark, lastWritten, sess, recv, dispatchedTo>>

\* ------------------------------------------------------------------------
\* Frame codec (frame-parser.js)
\* ------------------------------------------------------------------------
\* the byte values fed to the parser: the two direction bytes, zero and one
Bytes == {0, 1, FRAME_OUTGOING, FRAME_INCOMING}

\* the byte strings of 1 to n bytes
Chunks(n) == UNION {[1..m -> Bytes] : m \in 1..n}

\* the two length bytes of a header: len & 0xff and (len >> 8) & 0xff
lengthBytes(len) == <<len % ByteMod, (len \div ByteMod) % ByteMod>>

\* the length read from a header: lenLo | (lenHi << 8)
payloadLength(lenLo, lenHi) == lenLo + lenHi * ByteMod

RECURSIVE feedLoop(_, _)

\* the loop of feed with a zero-length header parsed as a frame without payload
feedLoop_EmitEmpty(buf, fr) ==
  IF Len(buf) < FRAME_HEADER_LEN THEN [buffer |-> buf, frames |-> fr]
  ELSE IF buf[1] # FRAME_INCOMING /\ buf[1] # FRAME_OUTGOING
    THEN feedLoop(Tail(buf), fr)
  ELSE LET payloadLen == payloadLength(buf[2], buf[3])
           totalLen == FRAME_HEADER_LEN + payloadLen IN
    IF Len(buf) < totalLen THEN [buffer |-> buf, frames |-> fr]
    ELSE feedLoop(SubSeq(buf, totalLen + 1, Len(buf)),
                  Append(fr, [type |-> buf[1],
                              payload |-> SubSeq(buf, FRAME_HEADER_LEN + 1, totalLen)]))

\* the loop of feed dropping a whole header, not one byte, on a stray byte
feedLoop_DropHeader(buf, fr) ==
  IF Len(buf) < FRAME_HEADER_LEN THEN [buffer |-> buf, frames |-> fr]
  ELSE IF buf[1] # FRAME_INCOMING /\ buf[1] # FRAME_OUTGOING
    THEN feedLoop(SubSeq(buf, FRAME_HEADER_LEN + 1, Len(buf)), fr)
  ELSE LET payloadLen == payloadLength(buf[2], buf[3])
           totalLen == FRAME_HEADER_LEN + payloadLen IN
    IF payloadLen = 0 THEN feedLoop(Tail(buf), fr)
    ELSE IF Len(buf) < totalLen THEN [buffer |-> buf, frames |-> fr]
    ELSE feedLoop(SubSeq(buf, totalLen + 1, Len(buf)),
                  Append(fr, [type |-> buf[1],
                              payload |-> SubSeq(buf, FRAME_HEADER_LEN + 1, totalLen)]))

\* the while loop of feed: the frames parsed from buf after fr, and the
\* bytes left in the buffer
feedLoop(buf, fr) ==
  IF Len(buf) < FRAME_HEADER_LEN THEN [buffer |-> buf, frames |-> fr]
  ELSE IF buf[1] # FRAME_INCOMING /\ buf[1] # FRAME_OUTGOING
    THEN feedLoop(Tail(buf), fr)
  ELSE LET payloadLen == payloadLength(buf[2], buf[3])
           totalLen == FRAME_HEADER_LEN + payloadLen IN
    IF payloadLen = 0 THEN feedLoop(Tail(buf), fr)
    ELSE IF Len(buf) < totalLen THEN [buffer |-> buf, frames |-> fr]
    ELSE feedLoop(SubSeq(buf, totalLen + 1, Len(buf)),
                  Append(fr, [type |-> buf[1],
                              payload |-> SubSeq(buf, FRAME_HEADER_LEN + 1, totalLen)]))

\* feed that parses the new bytes only and forgets what the buffer held
feed_NoCarry(buffer, data) == feedLoop(data, <<>>)

\* FrameParser.feed(data) on a parser whose buffer is buffer: the frames it
\* returns and the buffer it leaves
feed(buffer, data) == feedLoop(buffer \o data, <<>>)

\* buildFrame with the two length bytes swapped
buildFrame_BigEndian(frameType, payload) ==
  <<frameType, lengthBytes(Len(payload))[2], lengthBytes(Len(payload))[1]>> \o payload

\* FrameParser.buildFrame(frameType, payload)
buildFrame(frameType, payload) ==
  <<frameType>> \o lengthBytes(Len(payload)) \o payload

\* no frame was built
NoFrame == [type |-> 0, payload |-> <<>>]

\* a parser that has been fed nothing: new FrameParser()
NewParser == [buffer |-> <<>>, frames |-> <<>>, fed |-> <<>>, chunks |-> 0,
              built |-> NoFrame]

\* ------------------------------------------------------------------------
\* Command queue
\* ------------------------------------------------------------------------
\* drainQueue without the test of currentCommand
drainQueue_NoLock(sc, cur, q, ser) ==
  IF ~sc THEN [cur |-> cur, q |-> q, wr |-> <<>>]
  ELSE IF Len(q) = 0 THEN [cur |-> cur, q |-> q, wr |-> <<>>]
  ELSE IF ser # "open" THEN [cur |-> cur, q |-> q, wr |-> <<>>]
  ELSE [cur |-> [id |-> Head(q).id, source |-> Head(q).source, timer |-> "full"],
        q |-> Tail(q),
        wr |-> <<Head(q)>>]

\* drainQueue without the test of startupComplete
drainQueue_NoGate(sc, cur, q, ser) ==
  IF cur # NoCmd THEN [cur |-> cur, q |-> q, wr |-> <<>>]
  ELSE IF Len(q) = 0 THEN [cur |-> cur, q |-> q, wr |-> <<>>]
  ELSE IF ser # "open" THEN [cur |-> cur, q |-> q, wr |-> <<>>]
  ELSE [cur |-> [id |-> Head(q).id, source |-> Head(q).source, timer |-> "full"],
        q |-> Tail(q),
        wr |-> <<Head(q)>>]

\* drainQueue without the setTimeout of the command timer
drainQueue_NoTimer(sc, cur, q, ser) ==
  IF ~sc THEN [cur |-> cur, q |-> q, wr |-> <<>>]
  ELSE IF cur # NoCmd THEN [cur |-> cur, q |-> q, wr |-> <<>>]
  ELSE IF Len(q) = 0 THEN [cur |-> cur, q |-> q, wr |-> <<>>]
  ELSE IF ser # "open" THEN [cur |-> cur, q |-> q, wr |-> <<>>]
  ELSE [cur |-> [id |-> Head(q).id, source |-> Head(q).source, timer |-> "none"],
        q |-> Tail(q),
        wr |-> <<Head(q)>>]

\* drainQueue that leaves the command it writes at the head of the waiters
drainQueue_KeepHead(sc, cur, q, ser) ==
  IF ~sc THEN [cur |-> cur, q |-> q, wr |-> <<>>]
  ELSE IF cur # NoCmd THEN [cur |-> cur, q |-> q, wr |-> <<>>]
  ELSE IF Len(q) = 0 THEN [cur |-> cur, q |-> q, wr |-> <<>>]
  ELSE IF ser # "open" THEN [cur |-> cur, q |-> q, wr |-> <<>>]
  ELSE [cur |-> [id |-> Head(q).id, source |-> Head(q).source, timer |-> "full"],
        q |-> q,
        wr |-> <<Head(q)>>]

\* drainQueue(): the new in-flight command, the new waiters and the commands
\* written to serial
drainQueue(sc, cur, q, ser) ==
  IF ~sc THEN [cur |-> cur, q |-> q, wr |-> <<>>]
  ELSE IF cur # NoCmd THEN [cur |-> cur, q |-> q, wr |-> <<>>]
  ELSE IF Len(q) = 0 THEN [cur |-> cur, q |-> q, wr |-> <<>>]
  ELSE IF ser # "open" THEN [cur |-> cur, q |-> q, wr |-> <<>>]
  ELSE [cur |-> [id |-> Head(q).id, source |-> Head(q).source, timer |-> "full"],
        q |-> Tail(q),
        wr |-> <<Head(q)>>]

\* enqueueCommand that puts the new command in front of the waiters
enqueueCommand_Front(sc, cur, q, ser, cmd) ==
  drainQueue(sc, cur, <<cmd>> \o q, ser)

\* enqueueCommand(data, source)
enqueueCommand(sc, cur, q, ser, cmd) ==
  drainQueue(sc, cur, Append(q, cmd), ser)

\* resolveCurrentCommand without the setImmediate(drainQueue)
resolveCurrentCommand_NoDrain(cur, dp) ==
  IF cur = NoCmd THEN [cur |-> cur, dp |-> dp, clr |-> {}]
  ELSE [cur |-> NoCmd, dp |-> dp, clr |-> {cur.id}]

\* resolveCurrentCommand without its clearTimeout
resolveCurrentCommand_NoClear(cur, dp) ==
  IF cur = NoCmd THEN [cur |-> cur, dp |-> dp, clr |-> {}]
  ELSE [cur |-> NoCmd, dp |-> TRUE, clr |-> {}]

\* resolveCurrentCommand(): the new in-flight command, whether a
\* setImmediate(drainQueue) was queued, and the commands whose timer was
\* cleared
resolveCurrentCommand(cur, dp) ==
  IF cur = NoCmd THEN [cur |-> cur, dp |-> dp, clr |-> {}]
  ELSE [cur |-> NoCmd, dp |-> TRUE, clr |-> {cur.id}]

\* resetCommandTimeout that leaves the running timer as it is
resetCommandTimeout_NoRearm(cur) == cur

\* resetCommandTimeout(): clearTimeout and a new setTimeout of the full delay
resetCommandTimeout(cur) ==
  IF cur = NoCmd THEN cur
  ELSE [cur EXCEPT !.timer = "full"]

\* resetState without commandQueue.length = 0
resetState_KeepQueue(cur, q) ==
  [serial |-> "lost", startupComplete |-> FALSE, buffer |-> <<>>, cur |-> NoCmd,
   pendingResolve |-> -1, q |-> q,
   clr |-> IF cur = NoCmd THEN {} ELSE {cur.id}]

\* resetState that leaves the in-flight command and its timer
resetState_KeepCommand(cur, q) ==
  [serial |-> "lost", startupComplete |-> FALSE, buffer |-> <<>>, cur |-> cur,
   pendingResolve |-> -1, q |-> <<>>,
   clr |-> {}]

\* resetState(); buffer is frameParser.buffer, clr holds the command whose
\* timer was cleared
resetState(cur, q) ==
  [serial |-> "lost", startupComplete |-> FALSE, buffer |-> <<>>, cur |-> NoCmd,
   pendingResolve |-> -1, q |-> <<>>,
   clr |-> IF cur = NoCmd THEN {} ELSE {cur.id}]

\* ------------------------------------------------------------------------
\* Fan-out
\* ------------------------------------------------------------------------
\* broadcastToAll(rawFrame): the connections the frame is sent to
broadcastToAll(cl) == {h \in Handles : cl[h] = "open"}

\* sendToClient(source, rawFrame)
sendToClient(cl, source) == IF cl[source] = "open" THEN {source} ELSE {}

\* the out-of-band AppStart command as it appears in the log of writes
AppStart == [id |-> AppStartId, source |-> NullSource]

\* the ids of the queued commands among the writes wr
QueuedIds(wr) == {wr[i].id : i \in 1..Len(wr)} \ {AppStartId}

\* the history of a step of the given kind that wrote wr to serial
Log(kind, wr) == [NoEv EXCEPT !.kind = kind, !.writes = wr]

\* no function of the weather producer has been applied
NoCalc == [fn |-> "none", arg |-> 0, out |-> 0]

\* the TCP sockets whose byte streams are followed
TcpSockets == 1..NumTCP

\* the sockets have sent nothing: each tcpParser is new, nothing is enqueued
NoTcp == [made |-> [s \in TcpSockets |-> <<>>],
          pending |-> [s \in TcpSockets |-> <<>>],
          parser |-> [s \in TcpSockets |-> <<>>],
          queue |-> <<>>,
          written |-> <<>>]

\* the WebSockets the polyfill port creates
Socks == 1..MaxSock

\* new WebSocketSerialPort(): the fields its constructor sets; socks holds
\* the state of every WebSocket, ws the one this._ws refers to (0 for null)
NewPort == [opened |-> FALSE, explicitClose |-> FALSE, reconnecting |-> FALSE,
            timer |-> FALSE, timers |-> 0, gaveUp |-> FALSE, ws |-> 0,
            socks |-> [k \in Socks |-> "none"]]

\* the history variables after a step that released the commands rel and
\* wrote wr to serial
Account(rel, wr) ==
  /\ outstanding' = (outstanding \ rel) \cup QueuedIds(wr)
  /\ lastWritten' = IF QueuedIds(wr) # {} THEN wr[Len(wr)].id ELSE lastWritten

\* the commands a drainQueue armed a timer for
armed(d) == IF d.wr # <<>> /\ d.cur.timer # "none" THEN {d.cur.id} ELSE {}

\* the pending timers after a step that cleared or fired those of clr and
\* armed those of set
Timers(clr, set) == cmdTimers' = (cmdTimers \ clr) \cup set

\* ------------------------------------------------------------------------
\* Persistence of the push buffer
\* ------------------------------------------------------------------------
\* the payload of push frame p: its code and p more bytes
pushPayload(p) == <<Advert>> \o [i \in 1..p |-> ByteMod - 1 - p]

\* the rawFrame handleIncomingFrame builds from a payload
rawFrame(payload) == <<FRAME_INCOMING>> \o lengthBytes(Len(payload)) \o payload

\* the entry bufferPushNotification makes of push frame p: its bytes and the
\* clock at its arrival (frames arrive in the order of their ids)
Entry(p) == [frame |-> rawFrame(pushPayload(p)), timestamp |-> p]

\* a push id no frame has: an entry that is none of the frames received
Garbled == -1

\* the push frame an entry holds
idOf(e) ==
  IF \E p \in PushIds : Entry(p) = e
    THEN CHOOSE p \in PushIds : Entry(p) = e
    ELSE Garbled

\* the padding character of base64, next to the digits 0..63
Pad == 64

RECURSIVE toBase64_Mod(_)
toBase64_Mod(b) ==
  IF Len(b) = 0 THEN <<>>
  ELSE IF Len(b) = 1 THEN <<b[1] % 64, (b[1] % 4) * 16, Pad, Pad>>
  ELSE IF Len(b) = 2
    THEN <<b[1] % 64, (b[1] % 4) * 16 + b[2] \div 16, (b[2] % 16) * 4, Pad>>
  ELSE <<b[1] % 64, (b[1] % 4) * 16 + b[2] \div 16,
         (b[2] % 16) * 4 + b[3] \div 64, b[3] % 64>>
       \o toBase64_Mod(SubSeq(b, 4, Len(b)))

\* buf.toString('base64'): three bytes become four digits of six bits, and
\* the last group is padded
RECURSIVE toBase64(_)
toBase64(b) ==
  IF Len(b) = 0 THEN <<>>
  ELSE IF Len(b) = 1 THEN <<b[1] \div 4, (b[1] % 4) * 16, Pad, Pad>>
  ELSE IF Len(b) = 2
    THEN <<b[1] \div 4, (b[1] % 4) * 16 + b[2] \div 16, (b[2] % 16) * 4, Pad>>
  ELSE <<b[1] \div 4, (b[1] % 4) * 16 + b[2] \div 16,
         (b[2] % 16) * 4 + b[3] \div 64, b[3] % 64>>
       \o toBase64(SubSeq(b, 4, Len(b)))

\* Buffer.from(str, 'base64'): four digits become three bytes; decoding ends
\* at the padding or at the end of the digits
RECURSIVE fromBase64(_)
fromBase64(d) ==
  IF Len(d) < 2 \/ d[1] = Pad \/ d[2] = Pad THEN <<>>
  ELSE IF Len(d) = 2 \/ d[3] = Pad THEN <<d[1] * 4 + d[2] \div 16>>
  ELSE IF Len(d) = 3 \/ d[4] = Pad
    THEN <<d[1] * 4 + d[2] \div 16, (d[2] % 16) * 16 + d[3] \div 4>>
  ELSE <<d[1] * 4 + d[2] \div 16, (d[2] % 16) * 16 + d[3] \div 4,
         (d[3] % 4) * 64 + d[4]>>
       \o fromBase64(SubSeq(d, 5, Len(d)))

\* the push history file: missing, not parsable as entries ("corrupt"), or
\* the JSON of a list of {frame: base64, timestamp}
HistoryFiles ==
  {[kind |-> k, entries |-> <<>>] : k \in {"missing", "corrupt"}}
    \cup {[kind |-> "json",
            entries |-> [i \in 1..n |-> [frame |-> toBase64(Entry(OldPush).frame),
                                         timestamp |-> Entry(OldPush).timestamp]]] :
           n \in 0..MaxHist}
NoHistory == [kind |-> "missing", entries |-> <<>>]

\* loadPushHistory without its try/catch: the error of JSON.parse escapes
loadPushHistory_NoCatch(file) ==
  [entries |-> IF file.kind = "json"
                 THEN [i \in 1..Len(file.entries) |->
                        [frame |-> fromBase64(file.entries[i].frame),
                         timestamp |-> file.entries[i].timestamp]]
                 ELSE <<>>,
   threw |-> file.kind = "corrupt"]

\* loadPushHistory(): the decoded entries of a file that exists and parses,
\* else nothing; threw says whether an error escapes to the caller
loadPushHistory(file) ==
  [entries |-> IF file.kind = "json"
                 THEN [i \in 1..Len(file.entries) |->
                        [frame |-> fromBase64(file.entries[i].frame),
                         timestamp |-> file.entries[i].timestamp]]
                 ELSE <<>>,
   threw |-> FALSE]

\* savePushHistory(): the dirty flag is cleared first, then the buffer is
\* written; the error of a failed write is swallowed and the file is left
\* as it was
savePushHistory(st, buf, writeOk) ==
  [st EXCEPT !.dirty = FALSE,
             !.file = IF writeOk
                        THEN [kind |-> "json",
                              entries |-> [i \in 1..Len(buf) |->
                                 [frame |-> toBase64(Entry(buf[i]).frame),
                                  timestamp |-> Entry(buf[i]).timestamp]]]
                        ELSE @]

\* schedulePushHistorySave(): mark dirty, arm the 5 s timer if none is armed
schedulePushHistorySave(st) == [st EXCEPT !.dirty = TRUE, !.timer = TRUE]

\* the process runs: it has not exited and no error has escaped
Running == ~store.exited /\ ~store.fatal

\* the state after the module body has run and main has called openSerial
Boot(file) ==
  /\ serial = "opening"
  /\ startupComplete = FALSE
  /\ pendingResolve = -1
  /\ sq = [pc |-> "none", stale |-> FALSE]
  /\ commandQueue = <<>>
  /\ currentCommand = NoCmd
  /\ drainPending = FALSE
  /\ clients = [h \in Handles |-> "new"]
  /\ replay = [h \in WSHandles |-> "no"]
  /\ pushBuffer = [i \in 1..Len(loadPushHistory(file).entries) |->
                     idOf(loadPushHistory(file).entries[i])]
  /\ store = [file |-> file, dirty |-> FALSE, timer |-> FALSE, exited |-> FALSE,
              fatal |-> loadPushHistory(file).threw]
  /\ calc = NoCalc
  /\ wx = "idle"
  /\ nextId = 1
  /\ nextPush = 1
  /\ radioPending = <<>>
  /\ ev = NoEv
  /\ outstanding = {}
  /\ cmdTimers = {}
  /\ resetMark = 1
  /\ lastWritten = 0
  /\ sess = "down"
  /\ recv = [h \in Handles |-> [p \in PushIds |-> 0]]
  /\ dispatchedTo = [p \in 1..MaxPush |-> {}]
  /\ codec = NewParser
  /\ tcp = NoTcp
  /\ port = NewPort

\* boot without a push history file
Init == Boot(NoHistory)

\* boot with any push history file
InitPush == \E file \in HistoryFiles : Boot(file)

\* serial.open callback without error: the port is open, startDeviceQuery
\* runs up to its await sleep(500)
SerialOpenOk ==
  /\ serial = "opening"
  /\ serial' = "open"
  /\ sq' = [pc |-> "sleep", stale |-> FALSE]
  /\ sess' = "handshake"
  /\ ev' = NoEv
  /\ UNCHANGED <<startupComplete, pendingResolve, commandQueue, currentCommand,
                 drainPending, clients, replay, pushBuffer, wx, nextId, nextPush,
                 radioPending, outstanding, cmdTimers, resetMark, lastWritten, recv, dispatchedTo, codec, store, calc, tcp, port>>

\* serial.open callback with an error: retry in 5 s
SerialOpenFail ==
  /\ serial = "opening"
  /\ serial' = "retry"
  /\ ev' = NoEv
  /\ UNCHANGED <<startupComplete, pendingResolve, sq, commandQueue, currentCommand,
                 drainPending, clients, replay, pushBuffer, wx, nextId, nextPush,
                 radioPending, outstanding, cmdTimers, resetMark, lastWritten, sess, recv, dispatchedTo, codec, store, calc, tcp, port>>

\* setTimeout(openSerial, 5000) fires.  Timers fire in the order of their
\* expiry: a timer of startDeviceQuery that was set before the port closed,
\* with a delay of at most RECONNECT_MS, has fired before this one.
OpenSerial ==
  /\ serial \in {"retry", "lost"}
  /\ ~drainPending
  /\ sq.pc = "sleep" => SETTLE_MS > RECONNECT_MS
  /\ sq.pc = "wait" => STARTUP_TIMEOUT_MS > RECONNECT_MS
  /\ serial' = "opening"
  /\ ev' = NoEv
  /\ UNCHANGED <<startupComplete, pendingResolve, sq, commandQueue, currentCommand,
                 drainPending, clients, replay, pushBuffer, wx, nextId, nextPush,
                 radioPending, outstanding, cmdTimers, resetMark, lastWritten, sess, recv, dispatchedTo, codec, store, calc, tcp, port>>

\* serial 'close' event: resetState(), then setTimeout(openSerial, 5000)
SerialClose ==
  /\ serial = "open"
  /\ LET r == resetState(currentCommand, commandQueue) IN
       /\ serial' = r.serial
       /\ startupComplete' = r.startupComplete
       /\ currentCommand' = r.cur
       /\ pendingResolve' = r.pendingResolve
       /\ commandQueue' = r.q
       /\ codec' = [codec EXCEPT !.buffer = r.buffer]
  /\ sq' = IF sq.pc = "none" THEN sq ELSE [sq EXCEPT !.stale = TRUE]
  /\ radioPending' = <<>>
  /\ resetMark' = nextId
  /\ sess' = "down"
  /\ ev' = Log("close", <<>>)
  /\ Account({currentCommand.id}, <<>>)
  /\ Timers(resetState(currentCommand, commandQueue).clr, {})
  /\ UNCHANGED <<drainPending, clients, replay, pushBuffer, wx, nextId, nextPush, recv, dispatchedTo, store, calc, tcp, port>>

\* the tail of startDeviceQuery without its drainQueue()
StartupFinish_NoDrain(kind) ==
  /\ startupComplete' = TRUE
  /\ sq' = [pc |-> "none", stale |-> FALSE]
  /\ sess' = IF sq.stale THEN sess ELSE "ready"
  /\ ev' = Log(kind, <<>>)
  /\ UNCHANGED <<currentCommand, commandQueue, outstanding, cmdTimers, lastWritten, radioPending, codec, store, calc, tcp, port>>

\* the tail of startDeviceQuery that returns from its catch: the gate is
\* left as it is
StartupFinish_NoGate(kind) ==
  /\ sq' = [pc |-> "none", stale |-> FALSE]
  /\ sess' = IF sq.stale THEN sess ELSE "ready"
  /\ ev' = Log(kind, <<>>)
  /\ UNCHANGED <<startupComplete, currentCommand, commandQueue, outstanding,
                 cmdTimers, lastWritten, radioPending, codec, store, calc, tcp, port>>

\* the tail of startDeviceQuery after its await: startupComplete = true and
\* drainQueue()
StartupFinish(kind) ==
  LET d == drainQueue(TRUE, currentCommand, commandQueue, serial) IN
    /\ startupComplete' = TRUE
    /\ currentCommand' = d.cur
    /\ commandQueue' = d.q
    /\ sq' = [pc |-> "none", stale |-> FALSE]
    /\ sess' = IF sq.stale THEN sess ELSE "ready"
    /\ ev' = Log(kind, d.wr)
    /\ Account({}, d.wr)
    /\ Timers({}, armed(d))
    /\ radioPending' = radioPending \o d.wr

\* sleep(500) elapses: sendCommandAndWait arms the hook and writes AppStart,
\* or rejects at once when the port is not open
SettleDone ==
  /\ sq.pc = "sleep"
  /\ ~drainPending
  /\ IF serial = "open"
       THEN /\ pendingResolve' = SelfInfo
            /\ sq' = [sq EXCEPT !.pc = "wait"]
            /\ radioPending' = Append(radioPending, AppStart)
            /\ ev' = Log("appstart", <<AppStart>>)
            /\ UNCHANGED <<startupComplete, currentCommand, commandQueue, sess,
                           outstanding, cmdTimers, lastWritten, codec, store, calc, tcp, port>>
       ELSE /\ pendingResolve' = -1
            /\ StartupFinish("startfail")
  /\ UNCHANGED <<serial, drainPending, clients, replay, pushBuffer, wx, nextId,
                 nextPush, resetMark, recv, dispatchedTo, codec, store, calc, tcp, port>>

\* the 5 s timer of sendCommandAndWait fires: the hook is cleared and the
\* promise rejected
StartupTimeout ==
  /\ sq.pc = "wait"
  /\ ~drainPending
  /\ pendingResolve' = -1
  /\ StartupFinish("starttimeout")
  /\ UNCHANGED <<serial, drainPending, clients, replay, pushBuffer, wx, nextId,
                 nextPush, resetMark, recv, dispatchedTo, codec, store, calc, tcp, port>>

\* bufferPushNotification that drops the newest entries on overflow
bufferPushNotification_DropNewest(buf, p) ==
  LET b == Append(buf, p) IN
    IF Len(b) > PUSH_BUFFER_SIZE
      THEN SubSeq(b, 1, PUSH_BUFFER_SIZE)
      ELSE b

\* bufferPushNotification(rawFrame)
bufferPushNotification(buf, p) ==
  LET b == Append(buf, p) IN
    IF Len(b) > PUSH_BUFFER_SIZE
      THEN SubSeq(b, Len(b) - PUSH_BUFFER_SIZE + 1, Len(b))
      ELSE b

\* one more copy of push p at the connections in hs
Deliver(rc, hs, p) ==
  [h \in Handles |-> IF h \in hs
      THEN [rc[h] EXCEPT ![p] = IF @ < 2 THEN @ + 1 ELSE 2]
      ELSE rc[h]]

\* handleIncomingFrame that goes on to broadcast the frame it gave to the hook
HandleFrame_HookForward(dir, code, ans, p) ==
  LET frameEv == [NoEv EXCEPT !.kind = "frame", !.dir = dir, !.code = code,
                              !.ansId = ans.id, !.ansSrc = ans.source] IN
  IF dir # FRAME_INCOMING THEN
    /\ ev' = frameEv
    /\ UNCHANGED <<startupComplete, pendingResolve, sq, commandQueue, currentCommand,
                   drainPending, pushBuffer, outstanding, cmdTimers, lastWritten, sess, recv, dispatchedTo, store, calc, tcp, port>>
  ELSE IF pendingResolve # -1 /\ code = pendingResolve THEN
    \* the hook: clearTimeout, pendingResolve = null, resolve(payload)
    LET d == drainQueue(TRUE, currentCommand, commandQueue, serial) IN
      /\ pendingResolve' = -1
      /\ startupComplete' = TRUE
      /\ currentCommand' = d.cur
      /\ commandQueue' = d.q
      /\ sq' = [pc |-> "none", stale |-> FALSE]
      /\ sess' = IF sq.stale THEN sess ELSE "ready"
      /\ ev' = [frameEv EXCEPT !.hooked = TRUE, !.writes = d.wr,
                               !.sent = broadcastToAll(clients)]
      /\ Account({}, d.wr)
      /\ Timers({}, armed(d))
      /\ UNCHANGED <<drainPending, pushBuffer, recv, dispatchedTo, store, calc, tcp, port>>
  ELSE IF isPushNotification(code) THEN
    /\ pushBuffer' = bufferPushNotification(pushBuffer, p)
    /\ ev' = [frameEv EXCEPT !.sent = broadcastToAll(clients), !.pushes = <<p>>]
    /\ recv' = Deliver(recv, broadcastToAll(clients), p)
    /\ dispatchedTo' = [dispatchedTo EXCEPT ![p] = {h \in Handles : clients[h] = "open"}]
    /\ store' = schedulePushHistorySave(store)
    /\ UNCHANGED <<startupComplete, pendingResolve, sq, commandQueue, currentCommand,
                   drainPending, outstanding, cmdTimers, lastWritten, sess, calc, tcp, port>>
  ELSE
    LET sent == IF currentCommand # NoCmd /\ currentCommand.source # NullSource
                  THEN sendToClient(clients, currentCommand.source)
                  ELSE broadcastToAll(clients)
        r == resolveCurrentCommand(currentCommand, drainPending) IN
      /\ IF code \in STREAMING_RESPONSE_CODES
           THEN /\ currentCommand' = resetCommandTimeout(currentCommand)
                /\ UNCHANGED <<drainPending, outstanding, cmdTimers, lastWritten, store, calc, tcp, port>>
           ELSE /\ currentCommand' = r.cur
                /\ drainPending' = r.dp
                /\ Account(IF currentCommand' = NoCmd THEN {currentCommand.id} ELSE {}, <<>>)
                /\ Timers(r.clr, {})
      /\ ev' = [frameEv EXCEPT !.sent = sent,
                               !.rel = IF currentCommand' = NoCmd THEN currentCommand.id ELSE 0]
      /\ UNCHANGED <<startupComplete, pendingResolve, sq, commandQueue, pushBuffer,
                     sess, recv, dispatchedTo, store, calc, tcp, port>>

\* handleIncomingFrame that restarts the command timer on a push frame
HandleFrame_PushRearms(dir, code, ans, p) ==
  LET frameEv == [NoEv EXCEPT !.kind = "frame", !.dir = dir, !.code = code,
                              !.ansId = ans.id, !.ansSrc = ans.source] IN
  IF dir # FRAME_INCOMING THEN
    /\ ev' = frameEv
    /\ UNCHANGED <<startupComplete, pendingResolve, sq, commandQueue, currentCommand,
                   drainPending, pushBuffer, outstanding, cmdTimers, lastWritten, sess, recv, dispatchedTo, store, calc, tcp, port>>
  ELSE IF pendingResolve # -1 /\ code = pendingResolve THEN
    \* the hook: clearTimeout, pendingResolve = null, resolve(payload)
    LET d == drainQueue(TRUE, currentCommand, commandQueue, serial) IN
      /\ pendingResolve' = -1
      /\ startupComplete' = TRUE
      /\ currentCommand' = d.cur
      /\ commandQueue' = d.q
      /\ sq' = [pc |-> "none", stale |-> FALSE]
      /\ sess' = IF sq.stale THEN sess ELSE "ready"
      /\ ev' = [frameEv EXCEPT !.hooked = TRUE, !.writes = d.wr]
      /\ Account({}, d.wr)
      /\ Timers({}, armed(d))
      /\ UNCHANGED <<drainPending, pushBuffer, recv, dispatchedTo, store, calc, tcp, port>>
  ELSE IF isPushNotification(code) THEN
    /\ pushBuffer' = bufferPushNotification(pushBuffer, p)
    /\ ev' = [frameEv EXCEPT !.sent = broadcastToAll(clients), !.pushes = <<p>>]
    /\ recv' = Deliver(recv, broadcastToAll(clients), p)
    /\ dispatchedTo' = [dispatchedTo EXCEPT ![p] = {h \in Handles : clients[h] = "open"}]
    /\ store' = schedulePushHistorySave(store)
    /\ currentCommand' = resetCommandTimeout(currentCommand)
    /\ UNCHANGED <<startupComplete, pendingResolve, sq, commandQueue,
                   drainPending, outstanding, cmdTimers, lastWritten, sess, calc, tcp, port>>
  ELSE
    LET sent == IF currentCommand # NoCmd /\ currentCommand.source # NullSource
                  THEN sendToClient(clients, currentCommand.source)
                  ELSE broadcastToAll(clients)
        r == resolveCurrentCommand(currentCommand, drainPending) IN
      /\ IF code \in STREAMING_RESPONSE_CODES
           THEN /\ currentCommand' = resetCommandTimeout(currentCommand)
                /\ UNCHANGED <<drainPending, outstanding, cmdTimers, lastWritten, store, calc, tcp, port>>
           ELSE /\ currentCommand' = r.cur
                /\ drainPending' = r.dp
                /\ Account(IF currentCommand' = NoCmd THEN {currentCommand.id} ELSE {}, <<>>)
                /\ Timers(r.clr, {})
      /\ ev' = [frameEv EXCEPT !.sent = sent,
                               !.rel = IF currentCommand' = NoCmd THEN currentCommand.id ELSE 0]
      /\ UNCHANGED <<startupComplete, pendingResolve, sq, commandQueue, pushBuffer,
                     sess, recv, dispatchedTo, store, calc, tcp, port>>

\* serial 'data' event carrying one frame: handleIncomingFrame(frame).
\* ans is the command the radio answers (NoCmd for a push), p the push id.
HandleFrame(dir, code, ans, p) ==
  LET frameEv == [NoEv EXCEPT !.kind = "frame", !.dir = dir, !.code = code,
                              !.ansId = ans.id, !.ansSrc = ans.source] IN
  IF dir # FRAME_INCOMING THEN
    /\ ev' = frameEv
    /\ UNCHANGED <<startupComplete, pendingResolve, sq, commandQueue, currentCommand,
                   drainPending, pushBuffer, outstanding, cmdTimers, lastWritten, sess, recv, dispatchedTo, store, calc, tcp, port>>
  ELSE IF pendingResolve # -1 /\ code = pendingResolve THEN
    \* the hook: clearTimeout, pendingResolve = null, resolve(payload)
    LET d == drainQueue(TRUE, currentCommand, commandQueue, serial) IN
      /\ pendingResolve' = -1
      /\ startupComplete' = TRUE
      /\ currentCommand' = d.cur
      /\ commandQueue' = d.q
      /\ sq' = [pc |-> "none", stale |-> FALSE]
      /\ sess' = IF sq.stale THEN sess ELSE "ready"
      /\ ev' = [frameEv EXCEPT !.hooked = TRUE, !.writes = d.wr]
      /\ Account({}, d.wr)
      /\ Timers({}, armed(d))
      /\ UNCHANGED <<drainPending, pushBuffer, recv, dispatchedTo, store, calc, tcp, port>>
  ELSE IF isPushNotification(code) THEN
    /\ pushBuffer' = bufferPushNotification(pushBuffer, p)
    /\ ev' = [frameEv EXCEPT !.sent = broadcastToAll(clients), !.pushes = <<p>>]
    /\ recv' = Deliver(recv, broadcastToAll(clients), p)
    /\ dispatchedTo' = [dispatchedTo EXCEPT ![p] = {h \in Handles : clients[h] = "open"}]
    /\ store' = schedulePushHistorySave(store)
    /\ UNCHANGED <<startupComplete, pendingResolve, sq, commandQueue, currentCommand,
                   drainPending, outstanding, cmdTimers, lastWritten, sess, calc, tcp, port>>
  ELSE
    LET sent == IF currentCommand # NoCmd /\ currentCommand.source # NullSource
                  THEN sendToClient(clients, currentCommand.source)
                  ELSE broadcastToAll(clients)
        r == resolveCurrentCommand(currentCommand, drainPending) IN
      /\ IF code \in STREAMING_RESPONSE_CODES
           THEN /\ currentCommand' = resetCommandTimeout(currentCommand)
                /\ UNCHANGED <<drainPending, outstanding, cmdTimers, lastWritten, store, calc, tcp, port>>
           ELSE /\ currentCommand' = r.cur
                /\ drainPending' = r.dp
                /\ Account(IF currentCommand' = NoCmd THEN {currentCommand.id} ELSE {}, <<>>)
                /\ Timers(r.clr, {})
      /\ ev' = [frameEv EXCEPT !.sent = sent,
                               !.rel = IF currentCommand' = NoCmd THEN currentCommand.id ELSE 0]
      /\ UNCHANGED <<startupComplete, pendingResolve, sq, commandQueue, pushBuffer,
                     sess, recv, dispatchedTo, store, calc, tcp, port>>

\* serial 'data' event with the bytes of one frame whose payload is its
\* code: frameParser.feed(data) returns that frame and keeps no byte
SerialData(dir, code) ==
  LET r == feed(codec.buffer, buildFrame(dir, <<code>>)) IN
    /\ r.frames = <<[type |-> dir, payload |-> <<code>>]>>
    /\ codec' = [codec EXCEPT !.buffer = r.buffer]

\* serial 'data' event with one stray byte: frameParser.feed(data) returns
\* no frame and keeps the byte until a header's worth of bytes is there
SerialNoise ==
  /\ serial = "open"
  /\ codec.buffer = <<>>
  /\ LET r == feed(codec.buffer, <<0>>) IN
       /\ r.frames = <<>>
       /\ codec' = [codec EXCEPT !.buffer = r.buffer]
  /\ ev' = NoEv
  /\ UNCHANGED <<serial, startupComplete, pendingResolve, sq, commandQueue,
                 currentCommand, drainPending, clients, replay, pushBuffer, wx,
                 nextId, nextPush, radioPending, outstanding, cmdTimers, resetMark,
                 lastWritten, sess, recv, dispatchedTo, store, calc, tcp, port>>

\* the codes the radio answers a command with: SelfInfo to the AppStart of
\* the bridge, any response code to a command of a client
AnswerCodes(cmd) ==
  IF cmd.id = AppStartId THEN {SelfInfo}
  ELSE {c \in RadioCodes : ~isPushNotification(c)}

\* the radio answers the oldest command it holds with one frame; a code
\* outside the streaming set ends its answer
RadioAnswers ==
  /\ serial = "open"
  /\ Len(radioPending) > 0
  /\ \E code \in AnswerCodes(Head(radioPending)) :
       /\ HandleFrame(FRAME_INCOMING, code, Head(radioPending), 0)
       /\ SerialData(FRAME_INCOMING, code)
       /\ LET rest == IF code \in STREAMING_RESPONSE_CODES
                        THEN radioPending ELSE Tail(radioPending) IN
            radioPending' = rest \o ev'.writes
  /\ UNCHANGED <<serial, clients, replay, wx, nextId, nextPush, resetMark, calc, tcp, port>>

\* the radio sends an unsolicited push frame
RadioPushes ==
  /\ serial = "open"
  /\ nextPush <= MaxPush
  /\ \E code \in {c \in RadioCodes : isPushNotification(c)} :
       /\ HandleFrame(FRAME_INCOMING, code, [id |-> -1, source |-> -1], nextPush)
       /\ SerialData(FRAME_INCOMING, code)
  /\ nextPush' = nextPush + 1
  /\ radioPending' = radioPending \o ev'.writes
  /\ UNCHANGED <<serial, clients, replay, wx, nextId, resetMark, calc, tcp, port>>

\* a frame with the ToRadio direction byte arrives from the radio
RadioEchoes ==
  /\ serial = "open"
  /\ HandleFrame(FRAME_OUTGOING, Ok, [id |-> -1, source |-> -1], 0)
  /\ SerialData(FRAME_OUTGOING, Ok)
  /\ UNCHANGED <<serial, clients, replay, wx, nextId, nextPush, resetMark,
                 radioPending, calc, tcp, port>>

\* the callback queued by setImmediate(drainQueue)
ImmediateDrain ==
  /\ drainPending
  /\ LET d == drainQueue(startupComplete, currentCommand, commandQueue, serial) IN
       /\ currentCommand' = d.cur
       /\ commandQueue' = d.q
       /\ ev' = Log("drain", d.wr)
       /\ Account({}, d.wr)
       /\ Timers({}, armed(d))
       /\ radioPending' = radioPending \o d.wr
  /\ drainPending' = FALSE
  /\ UNCHANGED <<serial, startupComplete, pendingResolve, sq, clients, replay,
                 pushBuffer, wx, nextId, nextPush, resetMark, sess, recv, dispatchedTo, codec, store, calc, tcp, port>>

\* time passes while a command is in flight: its timer is no longer at the
\* full delay
TimePasses ==
  /\ currentCommand # NoCmd
  /\ currentCommand.timer = "full"
  /\ ~drainPending
  /\ currentCommand' = [currentCommand EXCEPT !.timer = "running"]
  /\ ev' = NoEv
  /\ UNCHANGED <<serial, startupComplete, pendingResolve, sq, commandQueue,
                 drainPending, clients, replay, pushBuffer, wx, nextId, nextPush,
                 radioPending, outstanding, cmdTimers, resetMark, lastWritten, sess, recv, dispatchedTo, codec, store, calc, tcp, port>>

\* the timer of the in-flight command fires: currentCommand = null and
\* drainQueue()
CommandTimeout ==
  /\ currentCommand # NoCmd
  /\ currentCommand.timer = "running"
  /\ ~drainPending
  /\ LET d == drainQueue(startupComplete, NoCmd, commandQueue, serial) IN
       /\ currentCommand' = d.cur
       /\ commandQueue' = d.q
       /\ ev' = [Log("timeout", d.wr) EXCEPT !.rel = currentCommand.id,
                                           !.ansSrc = currentCommand.source]
       /\ Account({currentCommand.id}, d.wr)
       /\ Timers({currentCommand.id}, armed(d))
       /\ radioPending' = radioPending \o d.wr
  /\ UNCHANGED <<serial, startupComplete, pendingResolve, sq, drainPending, clients,
                 replay, pushBuffer, wx, nextId, nextPush, resetMark, sess, recv, dispatchedTo, codec, store, calc, tcp, port>>

\* enqueueCommand of one new command from source src, by a step of kind k
Enqueue(src, k) ==
  /\ nextId <= MaxCmds
  /\ LET d == enqueueCommand(startupComplete, currentCommand, commandQueue, serial,
                             [id |-> nextId, source |-> src]) IN
       /\ currentCommand' = d.cur
       /\ commandQueue' = d.q
       /\ ev' = Log(k, d.wr)
       /\ Account({}, d.wr)
       /\ Timers({}, armed(d))
       /\ radioPending' = radioPending \o d.wr
  /\ nextId' = nextId + 1

\* WebSocket 'connection' event
WsConnect(h) ==
  /\ clients[h] = "new"
  /\ clients' = [clients EXCEPT ![h] = "open"]
  /\ ev' = NoEv
  /\ UNCHANGED <<serial, startupComplete, pendingResolve, sq, commandQueue,
                 currentCommand, drainPending, replay, pushBuffer, wx, nextId,
                 nextPush, radioPending, outstanding, cmdTimers, resetMark,
                 lastWritten, sess, recv, dispatchedTo, codec, store, calc, tcp, port>>

\* the replay test of ws.on('message') without the _replayDone flag
scheduleReplay_NoFlag(rp, h, buf) ==
  IF rp[h] # "scheduled" /\ Len(buf) > 0
    THEN [rp EXCEPT ![h] = "scheduled"]
    ELSE rp

\* the replay test of ws.on('message'): when _replayDone is not set and the
\* buffer is not empty, set it and start the 3 s timer
scheduleReplay(rp, h, buf) ==
  IF rp[h] = "no" /\ Len(buf) > 0
    THEN [rp EXCEPT ![h] = "scheduled"]
    ELSE rp

\* WebSocket 'message' event: enqueue, and schedule the replay of the push
\* buffer
WsMessage(h) ==
  /\ clients[h] = "open"
  /\ Enqueue(h, "message")
  /\ replay' = scheduleReplay(replay, h, pushBuffer)
  /\ UNCHANGED <<serial, startupComplete, pendingResolve, sq, drainPending, clients,
                 pushBuffer, wx, nextPush, resetMark, sess, recv, dispatchedTo, codec, store, calc, tcp, port>>

\* the 3 s replay timer of a WebSocket connection fires
ReplayTimer(h) ==
  /\ replay[h] = "scheduled"
  /\ ~drainPending
  /\ replay' = [replay EXCEPT ![h] = "done"]
  /\ recv' = IF clients[h] = "open"
               THEN [recv EXCEPT ![h] = [p \in PushIds |->
                       LET n == Cardinality({i \in 1..Len(pushBuffer) : pushBuffer[i] = p}) IN
                         IF recv[h][p] + n < 2 THEN recv[h][p] + n ELSE 2]]
               ELSE recv
  /\ ev' = [Log("replay", <<>>) EXCEPT
               !.sent = IF clients[h] = "open" THEN {h} ELSE {},
               !.pushes = IF clients[h] = "open" THEN pushBuffer ELSE <<>>]
  /\ UNCHANGED <<serial, startupComplete, pendingResolve, sq, commandQueue,
                 currentCommand, drainPending, clients, pushBuffer, wx, nextId,
                 nextPush, radioPending, outstanding, cmdTimers, resetMark,
                 lastWritten, sess, dispatchedTo, codec, store, calc, tcp, port>>

\* TCP connection accepted
TcpConnect(h) ==
  /\ clients[h] = "new"
  /\ clients' = [clients EXCEPT ![h] = "open"]
  /\ ev' = NoEv
  /\ UNCHANGED <<serial, startupComplete, pendingResolve, sq, commandQueue,
                 currentCommand, drainPending, replay, pushBuffer, wx, nextId,
                 nextPush, radioPending, outstanding, cmdTimers, resetMark,
                 lastWritten, sess, recv, dispatchedTo, codec, store, calc, tcp, port>>

\* TCP 'data' event completing one frame: re-frame and enqueue
TcpData(h) ==
  /\ clients[h] = "open"
  /\ Enqueue(h, "tcpdata")
  /\ UNCHANGED <<serial, startupComplete, pendingResolve, sq, drainPending, clients,
                 replay, pushBuffer, wx, nextPush, resetMark, sess, recv, dispatchedTo, codec, store, calc, tcp, port>>

\* a client goes away: its socket leaves the OPEN state (readyState is not 1,
\* or destroyed) and its 'close' or 'error' event deletes it from its set
ClientClose(h) ==
  /\ clients[h] = "open"
  /\ clients' = [clients EXCEPT ![h] = "gone"]
  /\ ev' = NoEv
  /\ UNCHANGED <<serial, startupComplete, pendingResolve, sq, commandQueue,
                 currentCommand, drainPending, replay, pushBuffer, wx, nextId,
                 nextPush, radioPending, outstanding, cmdTimers, resetMark,
                 lastWritten, sess, recv, dispatchedTo, codec, store, calc, tcp, port>>

\* isReady() that tests the serial handle only
isReady_HandleOnly == serial # "none"

\* isReady() of the weather producer
isReady == startupComplete /\ serial = "open"

\* a weather tick starts: skip when the bridge is not ready, else fetch
WeatherTick ==
  /\ wx = "idle"
  /\ ~drainPending
  /\ wx' = IF isReady THEN "fetching" ELSE "idle"
  /\ ev' = NoEv
  /\ UNCHANGED <<serial, startupComplete, pendingResolve, sq, commandQueue,
                 currentCommand, drainPending, clients, replay, pushBuffer, nextId,
                 nextPush, radioPending, outstanding, cmdTimers, resetMark,
                 lastWritten, sess, recv, dispatchedTo, codec, store, calc, tcp, port>>

\* the fetches of a tick have settled: enqueue the report with a null
\* source, or skip when no reading is left
WeatherFetched ==
  /\ wx = "fetching"
  /\ wx' = "idle"
  /\ \/ /\ Enqueue(NullSource, "weather")
        /\ UNCHANGED <<serial, startupComplete, pendingResolve, sq, drainPending,
                       clients, replay, pushBuffer, nextPush, resetMark,
                       sess, recv, dispatchedTo, codec, store, calc, tcp, port>>
     \/ /\ ev' = NoEv
        /\ UNCHANGED <<serial, startupComplete, pendingResolve, sq, commandQueue,
                       currentCommand, drainPending, clients, replay, pushBuffer,
                       nextId, nextPush, radioPending, outstanding, cmdTimers,
                       resetMark, lastWritten, sess, recv, dispatchedTo, codec, store, calc, tcp, port>>

\* the state after the module body has run, before main calls openSerial and
\* weather.start: no serial handle, the weather producer not started
InitMain ==
  /\ serial = "none"
  /\ startupComplete = FALSE
  /\ pendingResolve = -1
  /\ sq = [pc |-> "none", stale |-> FALSE]
  /\ commandQueue = <<>>
  /\ currentCommand = NoCmd
  /\ drainPending = FALSE
  /\ clients = [h \in Handles |-> "new"]
  /\ replay = [h \in WSHandles |-> "no"]
  /\ pushBuffer = <<>>
  /\ store = [file |-> NoHistory, dirty |-> FALSE, timer |-> FALSE, exited |-> FALSE,
              fatal |-> FALSE]
  /\ calc = NoCalc
  /\ wx = "stopped"
  /\ nextId = 1
  /\ nextPush = 1
  /\ radioPending = <<>>
  /\ ev = NoEv
  /\ outstanding = {}
  /\ cmdTimers = {}
  /\ resetMark = 1
  /\ lastWritten = 0
  /\ sess = "down"
  /\ recv = [h \in Handles |-> [p \in PushIds |-> 0]]
  /\ dispatchedTo = [p \in 1..MaxPush |-> {}]
  /\ codec = NewParser
  /\ tcp = NoTcp
  /\ port = NewPort

\* main calls openSerial(): the handle is created and its open requested
MainOpenSerial ==
  /\ serial = "none"
  /\ serial' = "opening"
  /\ ev' = NoEv
  /\ UNCHANGED <<startupComplete, pendingResolve, sq, commandQueue, currentCommand,
                 drainPending, clients, replay, pushBuffer, wx, nextId, nextPush,
                 radioPending, outstanding, cmdTimers, resetMark, lastWritten, sess,
                 recv, dispatchedTo, codec, store, calc, tcp, port>>

\* main calls weather.start() after openSerial(): without a configuration it
\* returns at once, else it runs tick() and sets the interval
WeatherStart ==
  /\ wx = "stopped"
  /\ serial # "none"
  /\ \/ wx' = "off"
     \/ wx' = IF isReady THEN "fetching" ELSE "idle"
  /\ ev' = Log("weatherstart", <<>>)
  /\ UNCHANGED <<serial, startupComplete, pendingResolve, sq, commandQueue,
                 currentCommand, drainPending, clients, replay, pushBuffer, nextId,
                 nextPush, radioPending, outstanding, cmdTimers, resetMark,
                 lastWritten, sess, recv, dispatchedTo, codec, store, calc, tcp, port>>

\* main has returned: the event loop runs the callbacks
MainDone == serial # "none" /\ wx # "stopped"

\* the steps of the process from its start: main runs to its end, then the
\* callbacks of the serial port, of the timers and of the weather producer
NextBoot ==
  \/ MainOpenSerial
  \/ WeatherStart
  \/ MainDone /\ SerialOpenOk
  \/ MainDone /\ SerialOpenFail
  \/ MainDone /\ OpenSerial
  \/ MainDone /\ SerialClose
  \/ MainDone /\ SettleDone
  \/ MainDone /\ StartupTimeout
  \/ MainDone /\ RadioAnswers
  \/ MainDone /\ ImmediateDrain
  \/ MainDone /\ TimePasses
  \/ MainDone /\ CommandTimeout
  \/ MainDone /\ WeatherTick
  \/ MainDone /\ WeatherFetched

SpecBoot == InitMain /\ [][NextBoot]_vars

\* the steps of the bridge with a radio that sends no push frame
Next ==
  \/ SerialOpenOk
  \/ SerialOpenFail
  \/ OpenSerial
  \/ SerialClose
  \/ SettleDone
  \/ StartupTimeout
  \/ RadioAnswers
  \/ RadioEchoes
  \/ ImmediateDrain
  \/ TimePasses
  \/ CommandTimeout
  \/ \E h \in WSHandles : WsConnect(h) \/ WsMessage(h)
  \/ \E h \in TCPHandles : TcpConnect(h) \/ TcpData(h)
  \/ \E h \in Handles : ClientClose(h)
  \/ WeatherTick
  \/ WeatherFetched

Spec == Init /\ [][Next]_vars

\* the steps of the bridge seen from the command queue: those of Next with
\* connections that stay once they have come.  A connection that goes away
\* changes nothing but the set of open connections, which the queue never
\* reads.
NextQueue ==
  \/ SerialOpenOk
  \/ SerialOpenFail
  \/ OpenSerial
  \/ SerialClose
  \/ SettleDone
  \/ StartupTimeout
  \/ RadioAnswers
  \/ RadioEchoes
  \/ ImmediateDrain
  \/ TimePasses
  \/ CommandTimeout
  \/ \E h \in WSHandles : WsConnect(h) \/ WsMessage(h)
  \/ \E h \in TCPHandles : TcpConnect(h) \/ TcpData(h)
  \/ WeatherTick
  \/ WeatherFetched

SpecQueue == Init /\ [][NextQueue]_vars

\* the steps of a serial session: the port opens, closes and opens again,
\* the radio answers, sends push frames and stray bytes; WebSocket clients
\* connect and listen, the TCP client sends the commands
NextSession ==
  \/ SerialOpenOk
  \/ OpenSerial
  \/ SerialClose
  \/ SettleDone
  \/ StartupTimeout
  \/ RadioAnswers
  \/ RadioPushes
  \/ SerialNoise
  \/ ImmediateDrain
  \/ TimePasses
  \/ CommandTimeout
  \/ \E h \in WSHandles : WsConnect(h)
  \/ \E h \in TCPHandles : TcpConnect(h) \/ TcpData(h)

SpecSession == Init /\ [][NextSession]_vars

\* the steps of the push fan-out: the port opens once and the radio sends
\* push frames while the handshake has not finished, so that the commands
\* of the clients wait; connections come, send commands and go
NextPush ==
  \/ SerialOpenOk
  \/ RadioPushes
  \/ \E h \in WSHandles : WsConnect(h) \/ WsMessage(h) \/ ReplayTimer(h)
  \/ \E h \in TCPHandles : TcpConnect(h) \/ TcpData(h)
  \/ \E h \in Handles : ClientClose(h)

SpecPush == InitPush /\ [][NextPush]_vars

\* the steps of the bridge with a port that opens whenever it is opened, a
\* radio that sends no push frame and clients that stay connected
NextLive ==
  \/ SerialOpenOk
  \/ OpenSerial
  \/ SerialClose
  \/ SettleDone
  \/ StartupTimeout
  \/ RadioAnswers
  \/ ImmediateDrain
  \/ TimePasses
  \/ CommandTimeout
  \/ \E h \in WSHandles : WsConnect(h) \/ WsMessage(h)
  \/ \E h \in TCPHandles : TcpConnect(h) \/ TcpData(h)

\* the event loop runs every callback that is due: time passes, an expired
\* timer fires, a setImmediate callback runs, an open that succeeds calls
\* back.  Nothing is assumed of the radio or of the clients.
Fairness ==
  /\ WF_vars(SerialOpenOk)
  /\ WF_vars(OpenSerial)
  /\ WF_vars(SettleDone)
  /\ WF_vars(StartupTimeout)
  /\ WF_vars(ImmediateDrain)
  /\ WF_vars(TimePasses)
  /\ WF_vars(CommandTimeout)

SpecLive == Init /\ [][NextLive]_vars /\ Fairness

\* one call of feed with the bytes of data: the frames it returns are added
\* to those returned so far.  built is the frame data was built from.
Feed(data, built) ==
  /\ Len(codec.fed) + Len(data) <= MaxStream
  /\ LET r == feed(codec.buffer, data) IN
       codec' = [buffer |-> r.buffer,
                 frames |-> codec.frames \o r.frames,
                 fed |-> codec.fed \o data,
                 chunks |-> IF codec.chunks < 2 THEN codec.chunks + 1 ELSE 2,
                 built |-> built]
  /\ UNCHANGED <<bridgeVars, store, calc, tcp, port>>

\* the parser is fed the next bytes of a stream, a chunk of any size
FeedChunk ==
  \E data \in Chunks(MaxStream - Len(codec.fed)) : Feed(data, NoFrame)

\* a frame built by buildFrame is fed to a parser that has been fed nothing
FeedBuiltFrame ==
  /\ codec = NewParser
  /\ \E frameType \in {FRAME_INCOMING, FRAME_OUTGOING} :
     \E payload \in {<<>>} \cup Chunks(MaxStream - FRAME_HEADER_LEN) :
       Feed(buildFrame(frameType, payload), [type |-> frameType, payload |-> payload])

\* the byte string 00 3E 03 00 05 AA BB
ResyncExample == <<0, 62, 3, 0, 5, 170, 187>>

\* a parser that has been fed nothing is fed the byte string of the example
FeedResyncExample ==
  /\ codec = NewParser
  /\ Feed(ResyncExample, NoFrame)

\* ------------------------------------------------------------------------
\* TCP byte streams
\* ------------------------------------------------------------------------
\* the payloads of the frames the TCP clients send
TcpPayloads == {<<FRAME_OUTGOING>>, <<0, 1>>}

RECURSIVE Flat(_)

\* the bytes of the byte strings of q, one after the other
Flat(q) == IF q = <<>> THEN <<>> ELSE Head(q) \o Flat(Tail(q))

RECURSIVE TcpBytes(_, _)

\* the number of bytes the clients of sockets 1 .. n have written
TcpBytes(t, n) == IF n = 0 THEN 0 ELSE Len(Flat(t.made[n])) + TcpBytes(t, n - 1)

\* socket.on('data') with one parser shared by all the sockets
tcpData_OneParser(parsers, sock, data) ==
  LET r == feed(parsers[1], data) IN
    [parsers |-> [s \in TcpSockets |-> r.buffer],
     commands |-> [i \in 1..Len(r.frames) |->
                     [source |-> sock,
                      data |-> buildFrame(r.frames[i].type, r.frames[i].payload)]]]

\* socket.on('data'): tcpParser.feed(data) on the parser of the socket, and
\* the commands enqueued for the frames it returns
tcpData(parsers, sock, data) ==
  LET r == feed(parsers[sock], data) IN
    [parsers |-> [parsers EXCEPT ![sock] = r.buffer],
     commands |-> [i \in 1..Len(r.frames) |->
                     [source |-> sock,
                      data |-> buildFrame(r.frames[i].type, r.frames[i].payload)]]]

\* the client of socket s writes one more frame to its connection; the
\* clients write up to 2 * MaxStream bytes between them
TcpClientSends(s) ==
  /\ \E payload \in TcpPayloads :
       LET f == buildFrame(FRAME_OUTGOING, payload) IN
         /\ TcpBytes(tcp, NumTCP) + Len(f) <= 2 * MaxStream
         /\ tcp' = [tcp EXCEPT !.made[s] = Append(@, f), !.pending[s] = @ \o f]
  /\ UNCHANGED <<bridgeVars, codec, store, calc, port>>

\* 'data' event of socket s with the next bytes of its stream, a chunk of
\* any size: the frames completed are re-framed and enqueued
TcpSocketData(s) ==
  /\ \E k \in 1..Len(tcp.pending[s]) :
       LET r == tcpData(tcp.parser, s, SubSeq(tcp.pending[s], 1, k)) IN
         tcp' = [tcp EXCEPT !.pending[s] = SubSeq(@, k + 1, Len(@)),
                            !.parser = r.parsers,
                            !.queue = @ \o r.commands]
  /\ UNCHANGED <<bridgeVars, codec, store, calc, port>>

\* drainQueue takes the first waiter and writes its data to serial
TcpSerialWrite ==
  /\ tcp.queue # <<>>
  /\ tcp' = [tcp EXCEPT !.queue = Tail(@), !.written = Append(@, Head(tcp.queue))]
  /\ UNCHANGED <<bridgeVars, codec, store, calc, port>>

\* the steps of the TCP clients and of the commands they enqueue
NextTcp ==
  \/ \E s \in TcpSockets : TcpClientSends(s) \/ TcpSocketData(s)
  \/ TcpSerialWrite

SpecTcp == Init /\ [][NextTcp]_vars

\* ------------------------------------------------------------------------
\* WebSerial polyfill: WebSocketSerialPort
\* ------------------------------------------------------------------------
\* A WebSocket is "none" (not created), "connecting", "open", "closing"
\* (close() was called on it) or "closed" (its onclose has run).  timer
\* tells whether this._reconnectTimer holds a handle, timers counts the
\* timeouts of _scheduleReconnect that have not fired and were not cleared.

\* the WebSockets not created yet
FreeSocks(p) == {k \in Socks : p.socks[k] = "none"}

\* _connectWS(): new WebSocket(WS_URL); this._ws is set in onopen only
connectWS(p) ==
  LET k == CHOOSE k \in FreeSocks(p) : \A j \in FreeSocks(p) : k <= j IN
    [p EXCEPT !.socks[k] = "connecting"]

\* _scheduleReconnect(); late tells whether more than five minutes have
\* passed since the first disconnect
scheduleReconnect(p, late) ==
  IF p.explicitClose \/ p.gaveUp THEN p
  ELSE IF p.reconnecting /\ late
    THEN [p EXCEPT !.gaveUp = TRUE, !.reconnecting = FALSE]
  ELSE [p EXCEPT !.reconnecting = TRUE, !.timer = TRUE,
                 !.timers = IF @ < 2 THEN @ + 1 ELSE 2]

\* open(): returns at once on an open port, else creates the streams and
\* the first WebSocket
PortOpen ==
  /\ ~port.opened
  /\ FreeSocks(port) # {}
  /\ port' = connectWS([port EXCEPT !.opened = TRUE, !.explicitClose = FALSE,
                                    !.gaveUp = FALSE])
  /\ UNCHANGED <<bridgeVars, codec, store, calc, tcp>>

\* close(): clears the reconnect timer it holds and closes the WebSocket
\* this._ws refers to
PortClose ==
  /\ port' = [port EXCEPT !.explicitClose = TRUE, !.opened = FALSE,
                          !.reconnecting = FALSE,
                          !.timer = FALSE,
                          !.timers = IF port.timer /\ @ > 0 THEN @ - 1 ELSE @,
                          !.ws = 0,
                          !.socks = IF port.ws # 0 /\ @[port.ws] \in {"connecting", "open"}
                                      THEN [@ EXCEPT ![port.ws] = "closing"] ELSE @]
  /\ UNCHANGED <<bridgeVars, codec, store, calc, tcp>>

\* ws.onopen of WebSocket k
WsOnOpen(k) ==
  /\ port.socks[k] = "connecting"
  /\ port' = [port EXCEPT !.socks[k] = "open", !.ws = k, !.reconnecting = FALSE]
  /\ UNCHANGED <<bridgeVars, codec, store, calc, tcp>>

\* ws.onclose of WebSocket k: the attempt failed, the connection was lost
\* or close() had been called on it
WsOnClose(k) ==
  /\ port.socks[k] \in {"connecting", "open", "closing"}
  /\ \E late \in BOOLEAN :
       LET p == [port EXCEPT !.socks[k] = "closed", !.ws = 0] IN
         port' = IF ~p.explicitClose /\ p.opened
                   THEN scheduleReconnect(p, late) ELSE p
  /\ UNCHANGED <<bridgeVars, codec, store, calc, tcp>>

\* a timeout of _scheduleReconnect fires: this._reconnectTimer = null and
\* _connectWS()
ReconnectTimer_Port ==
  /\ port.timers > 0
  /\ FreeSocks(port) # {}
  /\ port' = connectWS([port EXCEPT !.timer = FALSE, !.timers = @ - 1])
  /\ UNCHANGED <<bridgeVars, codec, store, calc, tcp>>

\* the steps of the polyfill port: the application opens and closes it,
\* its WebSockets open and close, its reconnect timer fires
NextPort ==
  \/ PortOpen
  \/ PortClose
  \/ \E k \in Socks : WsOnOpen(k) \/ WsOnClose(k)
  \/ ReconnectTimer_Port

SpecPort == Init /\ [][NextPort]_vars

\* ------------------------------------------------------------------------
\* Weather report
\* ------------------------------------------------------------------------
\* A text is a sequence of pieces; `${a}${b}` is a \o b.  A bearing reading
\* is the string of the sensor with what parseFloat makes of it: a number,
\* held in half degrees, or NaN.
COMPASS == <<"N", "NNE", "NE", "ENE", "E", "ESE", "SE", "SSE",
             "S", "SSW", "SW", "WSW", "W", "WNW", "NW", "NNW">>

\* a % b of JavaScript: the sign of the result is the sign of a
jsRem(a, b) == IF a >= 0 THEN a % b ELSE -((-a) % b)

\* the bearings given to degreesToCompass: -45 to 360 degrees in steps of
\* half a degree, and two texts
MinBearing == -90
MaxBearing == 720
Bearings ==
  [numeric : {TRUE}, half : MinBearing..MaxBearing, text : {""}]
    \cup [numeric : {FALSE}, half : {0}, text : {"WNW", "calm"}]

\* degreesToCompass with Math.floor in place of Math.round
degreesToCompass_Floor(deg) ==
  IF ~deg.numeric THEN deg.text
  ELSE LET idx == jsRem(deg.half \div 45, 16) IN
         IF idx >= 0 THEN COMPASS[idx + 1] ELSE "undefined"

\* degreesToCompass(deg): Math.round(num / 22.5) % 16 indexes COMPASS; a
\* negative index finds no element
degreesToCompass(deg) ==
  IF ~deg.numeric THEN deg.text
  ELSE LET idx == jsRem((2 * deg.half + 45) \div 90, 16) IN
         IF idx >= 0 THEN COMPASS[idx + 1] ELSE "undefined"

\* the keys of the readings
Keys == {"temperature", "humidity", "wind_bearing", "wind_speed", "wind_gust",
         "pressure", "uv", "rain_rate", "rain_daily", "solar_radiation",
         "dew_point"}

\* the reading of each sensor in the example of the README ("degF" stands
\* for the degree sign and F, "W/m2" for watt per square metre)
Sample ==
  [k \in Keys |->
     CASE k = "temperature"     -> [state |-> <<"72.3">>, unit |-> <<"degF">>]
       [] k = "humidity"        -> [state |-> <<"45">>, unit |-> <<"%">>]
       [] k = "wind_bearing"    -> [state |-> [numeric |-> TRUE, half |-> 630, text |-> ""],
                                    unit |-> <<"deg">>]
       [] k = "wind_speed"      -> [state |-> <<"12">>, unit |-> <<"mph">>]
       [] k = "wind_gust"       -> [state |-> <<"18">>, unit |-> <<"mph">>]
       [] k = "pressure"        -> [state |-> <<"30.12">>, unit |-> <<"inHg">>]
       [] k = "uv"              -> [state |-> <<"4">>, unit |-> <<>>]
       [] k = "rain_rate"       -> [state |-> <<"0.02">>, unit |-> <<"in/h">>]
       [] k = "rain_daily"      -> [state |-> <<"0.45">>, unit |-> <<"in">>]
       [] k = "solar_radiation" -> [state |-> <<"850">>, unit |-> <<"W/m2">>]
       [] k = "dew_point"       -> [state |-> <<"55.2">>, unit |-> <<"degF">>]]

\* the readings map of a tick: the sensors in S answered, the bearing
\* sensor with b
Readings(S, b) ==
  [k \in S |-> IF k = "wind_bearing" THEN [Sample[k] EXCEPT !.state = b]
                                     ELSE Sample[k]]

\* parts.join(' ')
RECURSIVE join(_)
join(parts) ==
  IF Len(parts) = 0 THEN <<>>
  ELSE IF Len(parts) = 1 THEN parts[1]
  ELSE parts[1] \o <<" ">> \o join(Tail(parts))

\* the value returned when there is no part: null
NoMessage == <<>>

\* formatWeatherMessage with a wind part that needs the bearing too
formatWeatherMessage_NeedsBearing(readings) ==
  LET has(k) == k \in DOMAIN readings
      part(k, prefix, withUnit) ==
        IF has(k)
          THEN <<prefix \o readings[k].state
                   \o (IF withUnit THEN readings[k].unit ELSE <<>>)>>
          ELSE <<>>
      wind ==
        IF has("wind_speed") /\ has("wind_bearing")
          THEN <<(IF has("wind_bearing")
                    THEN <<degreesToCompass(readings["wind_bearing"].state)>>
                    ELSE <<>>)
                 \o readings["wind_speed"].state
                 \o (IF has("wind_gust")
                       THEN <<"G">> \o readings["wind_gust"].state
                       ELSE <<>>)
                 \o readings["wind_speed"].unit>>
          ELSE <<>>
      parts == part("temperature", <<>>, TRUE)
                 \o part("humidity", <<>>, TRUE)
                 \o wind
                 \o part("pressure", <<>>, TRUE)
                 \o part("uv", <<"UV">>, FALSE)
                 \o part("rain_rate", <<>>, TRUE)
                 \o part("rain_daily", <<>>, TRUE)
                 \o part("solar_radiation", <<>>, TRUE)
                 \o part("dew_point", <<"DP">>, TRUE)
  IN IF Len(parts) > 0 THEN <<"WX:", " ">> \o join(parts) ELSE NoMessage

\* formatWeatherMessage(readings): the parts pushed, in the order of the
\* code, joined by one space after "WX: "; null when no part was pushed
formatWeatherMessage(readings) ==
  LET has(k) == k \in DOMAIN readings
      part(k, prefix, withUnit) ==
        IF has(k)
          THEN <<prefix \o readings[k].state
                   \o (IF withUnit THEN readings[k].unit ELSE <<>>)>>
          ELSE <<>>
      wind ==
        IF has("wind_speed")
          THEN <<(IF has("wind_bearing")
                    THEN <<degreesToCompass(readings["wind_bearing"].state)>>
                    ELSE <<>>)
                 \o readings["wind_speed"].state
                 \o (IF has("wind_gust")
                       THEN <<"G">> \o readings["wind_gust"].state
                       ELSE <<>>)
                 \o readings["wind_speed"].unit>>
          ELSE <<>>
      parts == part("temperature", <<>>, TRUE)
                 \o part("humidity", <<>>, TRUE)
                 \o wind
                 \o part("pressure", <<>>, TRUE)
                 \o part("uv", <<"UV">>, FALSE)
                 \o part("rain_rate", <<>>, TRUE)
                 \o part("rain_daily", <<>>, TRUE)
                 \o part("solar_radiation", <<>>, TRUE)
                 \o part("dew_point", <<"DP">>, TRUE)
  IN IF Len(parts) > 0 THEN <<"WX:", " ">> \o join(parts) ELSE NoMessage

\* the call of degreesToCompass of a run
CalcCompass ==
  /\ calc.fn = "none"
  /\ \E deg \in Bearings :
       calc' = [fn |-> "degreesToCompass", arg |-> deg, out |-> degreesToCompass(deg)]
  /\ UNCHANGED <<bridgeVars, codec, store, tcp, port>>

\* the call of formatWeatherMessage of a run
CalcFormat ==
  /\ calc.fn = "none"
  /\ \E S \in SUBSET Keys, b \in {Sample["wind_bearing"].state,
                                   [numeric |-> FALSE, half |-> 0, text |-> "WNW"]} :
       calc' = [fn |-> "formatWeatherMessage", arg |-> Readings(S, b),
                out |-> formatWeatherMessage(Readings(S, b))]
  /\ UNCHANGED <<bridgeVars, codec, store, tcp, port>>

\* one more call of bufferPushNotification on a buffer that started empty:
\* arg holds the frames given so far, out the buffer.  The calls go on until
\* two frames more than the capacity have been given.
CalcBuffer ==
  /\ calc.fn \in {"none", "bufferPushNotification"}
  /\ LET given == IF calc.fn = "none" THEN <<>> ELSE calc.arg
         buf == IF calc.fn = "none" THEN <<>> ELSE calc.out IN
       /\ Len(given) < PUSH_BUFFER_SIZE + 2
       /\ \E p \in PushIds :
            calc' = [fn |-> "bufferPushNotification", arg |-> Append(given, p),
                     out |-> bufferPushNotification(buf, p)]
  /\ UNCHANGED <<bridgeVars, codec, store, tcp, port>>

NextCalc == CalcCompass \/ CalcFormat \/ CalcBuffer

SpecCalc == Init /\ [][NextCalc]_vars

\* the 5 s timer of schedulePushHistorySave fires
SaveTimer ==
  /\ Running
  /\ store.timer
  /\ \E writeOk \in BOOLEAN :
       LET st == [store EXCEPT !.timer = FALSE] IN
         /\ store' = IF st.dirty THEN savePushHistory(st, pushBuffer, writeOk) ELSE st
         /\ ev' = Log(IF ~st.dirty THEN "savetimer"
                      ELSE IF writeOk THEN "save" ELSE "savefail", <<>>)
  /\ UNCHANGED <<serial, startupComplete, pendingResolve, sq, commandQueue,
                 currentCommand, drainPending, clients, replay, pushBuffer, wx,
                 nextId, nextPush, radioPending, outstanding, cmdTimers, resetMark,
                 lastWritten, sess, recv, dispatchedTo, codec, calc, tcp, port>>

\* shutdown(), on SIGINT or SIGTERM: the buffer is saved if it is dirty and
\* the process exits; nothing of the process runs after that
Shutdown ==
  /\ Running
  /\ \E writeOk \in IF store.dirty THEN BOOLEAN ELSE {TRUE} :
       /\ store' = [(IF store.dirty
                       THEN savePushHistory(store, pushBuffer, writeOk)
                       ELSE store) EXCEPT !.exited = TRUE]
       /\ ev' = Log(IF ~store.dirty THEN "shutdown"
                    ELSE IF writeOk THEN "shutdownsave" ELSE "shutdownfail", <<>>)
  /\ UNCHANGED <<serial, startupComplete, pendingResolve, sq, commandQueue,
                 currentCommand, drainPending, clients, replay, pushBuffer, wx,
                 nextId, nextPush, radioPending, outstanding, cmdTimers, resetMark,
                 lastWritten, sess, recv, dispatchedTo, codec, calc, tcp, port>>

\* the steps of the push history: the port opens, the radio sends push
\* frames, WebSocket clients connect and are replayed the buffer, the save
\* timer fires and the process is told to stop
NextStore ==
  \/ Running /\ SerialOpenOk
  \/ Running /\ RadioPushes
  \/ Running /\ \E h \in WSHandles : WsConnect(h) \/ WsMessage(h) \/ ReplayTimer(h)
  \/ SaveTimer
  \/ Shutdown

SpecStore == InitPush /\ [][NextStore]_vars

NextCodec == FeedChunk \/ FeedBuiltFrame \/ FeedResyncExample

SpecCodec == Init /\ [][NextCodec]_vars

\* ------------------------------------------------------------------------
\* Properties
\* ------------------------------------------------------------------------
\* the last step dispatched a FromRadio response frame (first byte < 0x80)
ResponseFrame ==
  /\ ev.kind = "frame"
  /\ ev.dir = FRAME_INCOMING
  /\ ~isPushNotification(ev.code)

\* ... whose code is outside the streaming set
TerminalFrame == ResponseFrame /\ ev.code \notin STREAMING_RESPONSE_CODES

\* ... whose code is in the streaming set
StreamingFrame == ResponseFrame /\ ev.code \in STREAMING_RESPONSE_CODES

\* C1: at most one queued command is written to serial and not yet released
\* (by a terminal response, its timeout or resetState) at any instant.
C1_OneInFlight == Cardinality(outstanding) <= 1

\* a command is in flight at the serial layer while another one waits
C1_Witness ==
  /\ Cardinality(outstanding) = 1
  /\ currentCommand.id \in outstanding
  /\ Len(commandQueue) > 0
  /\ startupComplete /\ serial = "open"

\* C2: a response frame the radio sends in answer to a command of client A
\* is delivered to A (when A is still OPEN) and to no other client.
C2_RoutedToOriginator ==
  (ResponseFrame /\ ev.ansSrc \in Handles) =>
     /\ ev.sent \subseteq {ev.ansSrc}
     /\ clients[ev.ansSrc] = "open" => ev.ansSrc \in ev.sent

\* C3: every connection that was OPEN when a push frame was dispatched has
\* received exactly one copy of it, the live broadcast and the replay of the
\* push buffer counted together.
C3_PushExactlyOnce ==
  \A p \in 1..MaxPush : \A h \in dispatchedTo[p] : recv[h][p] = 1

\* C4: while the handshake of the current serial session is running, the
\* only serial write is the out-of-band AppStart.
C4_NoWriteDuringHandshake ==
  sess = "handshake" => QueuedIds(ev.writes) = {}

\* C5: while startupComplete is false no queued command is in flight and
\* none is written; enqueueCommand only appends to the waiters.
C5_GateClosed ==
  /\ [](~startupComplete =>
          /\ currentCommand = NoCmd
          /\ outstanding = {}
          /\ QueuedIds(ev.writes) = {})
  /\ [][(~startupComplete /\ ev'.kind \in {"message", "tcpdata", "weather"}) =>
          /\ Len(commandQueue') = Len(commandQueue) + 1
          /\ SubSeq(commandQueue', 1, Len(commandQueue)) = commandQueue
          /\ commandQueue'[Len(commandQueue')].id = nextId
          /\ currentCommand' = NoCmd
          /\ ev'.writes = <<>>]_vars

\* commands wait behind the closed gate while the port is open
C5_Witness ==
  /\ ~startupComplete
  /\ serial = "open"
  /\ Len(commandQueue) > 0
  /\ ev.kind \in {"message", "tcpdata"}

\* C6: after resetState, startupComplete is true only once the startup
\* sequencer of the current serial session has finished.
C6_StartupAbandoned == startupComplete => sess = "ready"

\* C7: no command enqueued before the last serial reset is written to
\* serial, is in flight or is still waiting after that reset.
C7_NoStaleCommand ==
  /\ \A i \in 1..Len(ev.writes) :
        ev.writes[i].id = AppStartId \/ ev.writes[i].id >= resetMark
  /\ \A i \in 1..Len(commandQueue) : commandQueue[i].id >= resetMark
  /\ currentCommand # NoCmd => currentCommand.id >= resetMark

\* after a reset that followed some enqueue, a command submitted after the
\* reset is written to serial
C7_Witness ==
  /\ resetMark > 1
  /\ sess = "ready"
  /\ QueuedIds(ev.writes) # {}
  /\ lastWritten >= resetMark

\* C8 as stated: every terminal response frame releases an in-flight
\* command and schedules the next drain.
C8_AlwaysOneTransition ==
  [][TerminalFrame' =>
        /\ currentCommand # NoCmd
        /\ currentCommand' = NoCmd
        /\ drainPending']_vars

\* C8 amended: a terminal response frame that is not consumed by the armed
\* startup hook and arrives while a command is in flight releases that
\* command and schedules the next drain; a terminal response frame that
\* arrives while no command is in flight, or that the startup hook consumes,
\* releases nothing and schedules nothing.
C8_OneTransitionWhenInFlight ==
  [][TerminalFrame' =>
        IF currentCommand # NoCmd /\ ~ev'.hooked
          THEN /\ currentCommand' = NoCmd
               /\ drainPending'
               /\ currentCommand.id \notin outstanding'
               /\ commandQueue' = commandQueue
               /\ ev'.writes = <<>>
          ELSE /\ drainPending' = drainPending
               /\ currentCommand # NoCmd => currentCommand' = currentCommand
               /\ ~ev'.hooked => currentCommand' = NoCmd]_vars

\* a terminal response has just released the in-flight command, with a
\* waiter behind it and the drain scheduled
C8_Witness ==
  /\ TerminalFrame
  /\ ev.rel > 0
  /\ ev.ansId = ev.rel
  /\ currentCommand = NoCmd
  /\ drainPending
  /\ Len(commandQueue) > 0

\* C9: a response frame with a streaming code leaves the in-flight command
\* in place with its timer restarted at the full delay, writes nothing to
\* serial and schedules no drain, so a waiter is not written before the
\* terminal frame of the stream.
C9_StreamingKeepsLock ==
  [][StreamingFrame' =>
        /\ currentCommand' = IF currentCommand = NoCmd THEN NoCmd
                             ELSE [currentCommand EXCEPT !.timer = "full"]
        /\ commandQueue' = commandQueue
        /\ outstanding' = outstanding
        /\ drainPending' = drainPending
        /\ ev'.writes = <<>>
        /\ ev'.rel = 0]_vars

\* a Contact frame has been dispatched while a command is in flight and
\* another one waits
C9_Witness ==
  /\ StreamingFrame
  /\ ev.code = Contact
  /\ currentCommand # NoCmd
  /\ currentCommand.timer = "full"
  /\ ev.ansId = currentCommand.id
  /\ Len(commandQueue) > 0

\* C10: when a response to command A reaches A's source, no command queued
\* after A has been written to serial yet.
C10_ResponseBeforeNextWrite ==
  (ResponseFrame /\ ev.ansId > 0 /\ ev.ansSrc \in ev.sent) =>
     lastWritten = ev.ansId

\* the ids of the waiters
WaitingIds == {commandQueue[i].id : i \in 1..Len(commandQueue)}

\* C11: commands are written to serial in the order enqueueCommand was
\* called (ids are given in that order): the waiters are in that order, a
\* step writes at most one queued command, and the command it writes was
\* enqueued before every command that is still waiting.
C11_Fifo ==
  /\ \A i, j \in 1..Len(commandQueue) :
        i < j => commandQueue[i].id < commandQueue[j].id
  /\ Cardinality(QueuedIds(ev.writes)) <= 1
  /\ \A w \in QueuedIds(ev.writes) : \A i \in WaitingIds : w < i

\* a command of one client is written while a command of another client,
\* enqueued after it, is still waiting
C11_Witness ==
  /\ QueuedIds(ev.writes) # {}
  /\ currentCommand.id = lastWritten
  /\ Len(commandQueue) > 0
  /\ Head(commandQueue).source # currentCommand.source
  /\ currentCommand.source \in Handles
  /\ Head(commandQueue).source \in Handles

\* C12: a command is never written to serial twice, and the timeout of
\* the in-flight command drops it, sends no frame to any client and writes
\* the head of the waiters, if any.
C12_NoRetransmission ==
  [][/\ \A w \in QueuedIds(ev'.writes) : w > lastWritten
     /\ ev'.kind = "timeout" =>
           /\ currentCommand # NoCmd
           /\ currentCommand.id \notin WaitingIds'
           /\ currentCommand.id \notin QueuedIds(ev'.writes)
           /\ currentCommand'.id # currentCommand.id
           /\ ev'.sent = {}
           /\ IF Len(commandQueue) > 0
                THEN /\ ev'.writes = <<Head(commandQueue)>>
                     /\ currentCommand'.id = Head(commandQueue).id
                     /\ commandQueue' = Tail(commandQueue)
                ELSE /\ ev'.writes = <<>>
                     /\ currentCommand' = NoCmd]_vars

\* the command of a connected client timed out and the next waiter was
\* written
C12_Witness ==
  /\ ev.kind = "timeout"
  /\ ev.rel > 0
  /\ ev.ansSrc \in Handles
  /\ clients[ev.ansSrc] = "open"
  /\ QueuedIds(ev.writes) # {}
  /\ currentCommand.id = lastWritten

\* the radio stops sending frames with a streaming code at some point
StreamsEnd == <>[][~StreamingFrame']_vars

\* C13 as stated: every in-flight command is eventually released, whatever
\* the radio sends.
C13_AlwaysReleased ==
  \A i \in 1..MaxCmds : (currentCommand.id = i) ~> (currentCommand.id # i)

\* C13: when the reply streams of the radio end, every in-flight command is
\* eventually released, and every command waiting behind an in-flight
\* command eventually leaves the waiters (written, or cleared by a reset).
C13_EventuallyReleased ==
  StreamsEnd =>
    \A i \in 1..MaxCmds :
      /\ (currentCommand.id = i) ~> (currentCommand.id # i)
      /\ (currentCommand # NoCmd /\ i \in WaitingIds) ~> (i \notin WaitingIds)

\* the in-flight command of a silent radio timed out with a waiter behind it
C13_Witness ==
  /\ ev.kind = "timeout"
  /\ ev.rel > 0
  /\ ev.rel \in {radioPending[k].id : k \in 1..Len(radioPending)}
  /\ QueuedIds(ev.writes) # {}

C15_BufferBounded == Len(pushBuffer) <= PUSH_BUFFER_SIZE

\* C16: a replay pass is scheduled at most once for a WebSocket connection
\* (once scheduled or done, its replay is never scheduled again, and only a
\* scheduled replay runs), and no replay pass is sent to a TCP connection.
C16_ReplayAtMostOnce ==
  [][/\ \A h \in WSHandles :
          /\ replay[h] = "scheduled" => replay'[h] \in {"scheduled", "done"}
          /\ replay[h] = "done" => replay'[h] = "done"
     /\ ev'.kind = "replay" =>
          /\ \E h \in WSHandles :
                replay[h] = "scheduled" /\ replay'[h] = "done" /\ ev'.sent \subseteq {h}
          /\ \A g \in TCPHandles : recv'[g] = recv[g]
     /\ ev'.kind = "tcpdata" => replay' = replay /\ recv' = recv]_vars

\* a WebSocket connection whose replay has run sends one more message while
\* the buffer is not empty
C16_Witness ==
  \E h \in WSHandles :
    /\ replay[h] = "done"
    /\ ev.kind = "message"
    /\ Len(pushBuffer) > 0
    /\ Len(commandQueue) > 0
    /\ commandQueue[Len(commandQueue)].source = h

\* the connections that have sent a command (while the handshake of the
\* session has not finished, every command is still waiting)
Senders == {commandQueue[i].source : i \in 1..Len(commandQueue)}

\* C17: the replay of a WebSocket connection is scheduled by its first
\* message and by no later one, and the buffer is sent when the delay
\* elapses only if the socket is still OPEN.
C17_ScheduledByFirstMessage ==
  [][/\ \A h \in WSHandles :
          (replay[h] = "no" /\ replay'[h] = "scheduled") => h \notin Senders
     /\ ev'.kind = "replay" =>
          \A h \in ev'.sent : clients[h] = "open"]_vars

\* C18: push frames reach a connection in wire order: the frames sent by a
\* step are in wire order, and none of them is older than a frame the
\* connection has already received.
C18_PushesInWireOrder ==
  [][\A h \in ev'.sent : \A k \in 1..Len(ev'.pushes) :
        /\ \A j \in 1..(k - 1) : ev'.pushes[j] <= ev'.pushes[k]
        /\ \A q \in PushIds : q > ev'.pushes[k] => recv[h][q] = 0]_vars

\* C19: however the bytes fed so far were cut into chunks, the frames the
\* parser has returned and the bytes it holds are those of one feed of the
\* whole byte string to a new parser.
C19_ChunkingIrrelevant ==
  LET one == feed(NewParser.buffer, codec.fed) IN
    /\ codec.frames = one.frames
    /\ codec.buffer = one.buffer

\* a byte string fed in more than one chunk gave two frames
C19_Witness ==
  /\ codec.chunks = 2
  /\ Len(codec.frames) = 2
  /\ codec.frames[1].type # codec.frames[2].type

\* the largest payload length of a frame
MaxPayloadLen == 65535

\* C20 as stated: buildFrame(direction, p) fed to a new parser gives exactly
\* the frame {direction, p}, for every payload p of 0 .. 65535 bytes.
C20_RoundTripAnyPayload ==
  codec.built # NoFrame => codec.frames = <<codec.built>>

\* C20: buildFrame(direction, p) fed to a new parser gives exactly the frame
\* {direction, p} and leaves no byte, for every payload p of at least one
\* byte; the two length bytes give back every length of 1 .. 65535.
C20_RoundTrip ==
  /\ (codec.built # NoFrame /\ Len(codec.built.payload) >= 1) =>
        /\ codec.frames = <<codec.built>>
        /\ codec.buffer = <<>>
  /\ codec = NewParser =>
        \A len \in 1..MaxPayloadLen :
          payloadLength(lengthBytes(len)[1], lengthBytes(len)[2]) = len

\* a frame with a payload of several bytes was built, fed and parsed
C20_Witness ==
  /\ codec.built # NoFrame
  /\ Len(codec.built.payload) >= 3
  /\ codec.frames = <<codec.built>>

\* the frames of one feed of the byte string s to a new parser
Decode(s) == feed(NewParser.buffer, s).frames

\* C21: a 0x00 byte at the head of the stream, and a zero-length header
\* (direction byte, 0, 0) at its head, give no frame and the frames that
\* follow are those of the rest of the stream; 00 3E 03 00 05 AA BB gives
\* the single frame {0x3E, [05 AA BB]}.
C21_ZeroLengthDiscarded ==
  LET s == codec.fed IN
    /\ (Len(s) >= 1 /\ s[1] = 0) => codec.frames = Decode(Tail(s))
    /\ (Len(s) >= FRAME_HEADER_LEN /\ s[1] \in {FRAME_INCOMING, FRAME_OUTGOING}
           /\ s[2] = 0 /\ s[3] = 0) =>
          codec.frames = Decode(SubSeq(s, FRAME_HEADER_LEN + 1, Len(s)))
    /\ s = ResyncExample =>
          codec.frames = <<[type |-> FRAME_INCOMING, payload |-> <<5, 170, 187>>]>>

\* a zero-length header was followed by a frame, which was parsed
C21_Witness ==
  /\ Len(codec.fed) >= FRAME_HEADER_LEN
  /\ codec.fed[1] = FRAME_OUTGOING
  /\ codec.fed[2] = 0
  /\ codec.fed[3] = 0
  /\ Len(codec.frames) = 1
  /\ codec.frames[1].type = FRAME_INCOMING
\* C22: loading the file right after a save that wrote it yields the entries
\* of the buffer, frame bytes and timestamps, in the same order
C22_SaveLoadRoundTrip ==
  ev.kind \in {"save", "shutdownsave"} =>
    /\ store.file.kind = "json"
    /\ ~loadPushHistory(store.file).threw
    /\ loadPushHistory(store.file).entries =
         [i \in 1..Len(pushBuffer) |-> Entry(pushBuffer[i])]

\* a save wrote a buffer holding a frame of an earlier run and a frame of
\* this run, whose lengths need different padding
C22_Witness ==
  /\ ev.kind = "save"
  /\ Len(store.file.entries) = 2
  /\ pushBuffer = <<OldPush, 1>>
  /\ store.file.entries[1].frame[Len(store.file.entries[1].frame)] = Pad
  /\ store.file.entries[2].frame # store.file.entries[1].frame

\* C23: a missing or corrupt history file gives the empty buffer and a
\* running bridge, and a failed write leaves the bridge running
C23_HistoryNeverFatal ==
  /\ ~store.fatal
  /\ (store.file.kind \in {"missing", "corrupt"} /\ nextPush = 1) => pushBuffer = <<>>
  /\ (store.file.kind \in {"missing", "corrupt"} /\ serial = "opening")
        => ENABLED SerialOpenOk
  /\ ev.kind = "savefail" => Running /\ (nextPush <= MaxPush /\ serial = "open"
                                           => ENABLED RadioPushes)

\* the bridge booted from a corrupt file, buffered a push, and the write of
\* the buffer failed
C23_Witness ==
  /\ store.file.kind = "corrupt"
  /\ ev.kind = "savefail"
  /\ Len(pushBuffer) = 1
  /\ Running

\* C24: when the process has exited on shutdown and the write of shutdown,
\* if any, did not fail, the file holds exactly the buffer
C24_ShutdownFlushes ==
  (store.exited /\ ev.kind \in {"shutdown", "shutdownsave"}) =>
    /\ store.file.kind = "json" \/ pushBuffer = <<>>
    /\ loadPushHistory(store.file).entries =
         [i \in 1..Len(pushBuffer) |-> Entry(pushBuffer[i])]
\* C25: the weather producer enqueues its command only while the bridge is
\* ready, that is with startup complete and the serial port open
C25_WeatherOnlyWhenReady ==
  ev.kind = "weather" => isReady
\* the sector of a bearing of h half degrees: the integer nearest to
\* h / 45, which is deg / 22.5
nearestSector(h) == CHOOSE n \in -3..17 : 90 * n - 45 <= 2 * h /\ 2 * h < 90 * n + 45

\* C26 as stated: a numeric bearing gives COMPASS[round(deg / 22.5) mod 16],
\* and 337.5 gives NNW, 0 gives N, 22 gives NNE and 348 gives N
C26_CompassAsStated ==
  (calc.fn = "degreesToCompass" /\ calc.arg.numeric /\ calc.arg.half >= 0) =>
    /\ calc.out = COMPASS[(nearestSector(calc.arg.half) % 16) + 1]
    /\ calc.arg.half = 675 => calc.out = "NNW"
    /\ calc.arg.half = 0 => calc.out = "N"
    /\ calc.arg.half = 44 => calc.out = "NNE"
    /\ calc.arg.half = 696 => calc.out = "N"

\* C26: a numeric bearing of 0 to 360 degrees gives
\* COMPASS[round(deg / 22.5) mod 16], and 337.5 gives NNW, 0 gives N, 22 gives
\* NNE, 348 gives NNW and 349 gives N
C26_Compass ==
  (calc.fn = "degreesToCompass" /\ calc.arg.numeric /\ calc.arg.half >= 0) =>
    /\ calc.out = COMPASS[(nearestSector(calc.arg.half) % 16) + 1]
    /\ calc.arg.half = 675 => calc.out = "NNW"
    /\ calc.arg.half = 0 => calc.out = "N"
    /\ calc.arg.half = 44 => calc.out = "NNE"
    /\ calc.arg.half = 696 => calc.out = "NNW"
    /\ calc.arg.half = 698 => calc.out = "N"

\* degreesToCompass was given 348 degrees
C26_Witness ==
  calc.fn = "degreesToCompass" /\ calc.arg.numeric /\ calc.arg.half = 696
    /\ calc.out = "NNW"

\* the fields of the report, in their order
Fields == <<"temperature", "humidity", "wind", "pressure", "uv", "rain_rate",
            "rain_daily", "solar_radiation", "dew_point">>

\* the reading a field is made from
fieldSource(f) == IF f = "wind" THEN "wind_speed" ELSE f

\* the text of field f of the readings r
fieldText(f, r) ==
  CASE f = "wind" ->
         (IF "wind_bearing" \in DOMAIN r
            THEN <<degreesToCompass(r["wind_bearing"].state)>> ELSE <<>>)
           \o r["wind_speed"].state
           \o (IF "wind_gust" \in DOMAIN r
                 THEN <<"G">> \o r["wind_gust"].state ELSE <<>>)
           \o r["wind_speed"].unit
    [] f = "uv" -> <<"UV">> \o r[f].state
    [] f = "dew_point" -> <<"DP">> \o r[f].state \o r[f].unit
    [] OTHER -> r[f].state \o r[f].unit

\* the texts of the fields fs, each after one space
RECURSIVE spaced(_, _)
spaced(fs, r) ==
  IF fs = <<>> THEN <<>>
  ELSE <<" ">> \o fieldText(Head(fs), r) \o spaced(Tail(fs), r)

\* the readings of the example of the README
ReadmeReadings ==
  Readings(Keys \ {"solar_radiation", "dew_point"}, Sample["wind_bearing"].state)

\* C27: the report is "WX:" followed by the fields whose reading is present,
\* each after a single space, in the fixed order; the wind field is present
\* iff wind_speed is; the README readings give the README line
C27_ReportFormat ==
  calc.fn = "formatWeatherMessage" =>
    LET r == calc.arg
        isPresent(f) == fieldSource(f) \in DOMAIN r
        present == SelectSeq(Fields, isPresent)
    IN /\ present # <<>> => calc.out = <<"WX:">> \o spaced(present, r)
       /\ r = ReadmeReadings =>
            calc.out = <<"WX:", " ", "72.3", "degF", " ", "45", "%", " ",
                         "NW", "12", "G", "18", "mph", " ", "30.12", "inHg", " ",
                         "UV", "4", " ", "0.02", "in/h", " ", "0.45", "in">>

\* a report was made of readings with a bearing and a gust and no speed
C27_Witness ==
  /\ calc.fn = "formatWeatherMessage"
  /\ {"wind_bearing", "wind_gust", "uv", "dew_point"} \subseteq DOMAIN calc.arg
  /\ "wind_speed" \notin DOMAIN calc.arg
  /\ calc.out = <<"WX:", " ", "UV", "4", " ", "DP", "55.2", "degF">>
\* C28: the pending command timers are those of the in-flight command; with
\* no command in flight there is none
C28_NoTimerWithoutCommand ==
  /\ currentCommand = NoCmd => cmdTimers = {}
  /\ cmdTimers \subseteq {currentCommand.id}

\* a terminal response released the in-flight command while another command
\* waits: no timer is left
C28_Witness ==
  /\ ev.kind = "frame"
  /\ ev.rel # 0
  /\ currentCommand = NoCmd
  /\ Len(commandQueue) > 0
  /\ cmdTimers = {}
\* C29: a response to a command of the weather producer (null source), and
\* a response dispatched while no command is in flight, goes to every open
\* connection; a response to a command of a client goes to that client
\* alone.  Frames consumed by the startup hook are left aside.
C29_ResponseRouting ==
  [][(ResponseFrame' /\ ~ev'.hooked) =>
       /\ ((ev'.ansSrc = NullSource /\ ev'.ansId # AppStartId)
              \/ currentCommand = NoCmd)
            => ev'.sent = broadcastToAll(clients)
       /\ ev'.ansSrc \in Handles => ev'.sent = sendToClient(clients, ev'.ansSrc)]_vars
\* C30: when the handshake fails, by its timeout or because AppStart cannot
\* be written, startupComplete is set and the first waiter is written if the
\* port is open and no command is in flight; and while the port stays open
\* the gate eventually opens
C30_StartupFailureNotFatal ==
  /\ [][ev'.kind \in {"starttimeout", "startfail"} =>
          /\ startupComplete'
          /\ (serial = "open" /\ currentCommand = NoCmd /\ commandQueue # <<>>) =>
                /\ ev'.writes = <<Head(commandQueue)>>
                /\ currentCommand'.id = Head(commandQueue).id
                /\ commandQueue' = Tail(commandQueue)]_vars
  /\ (serial = "open" /\ ~startupComplete) ~> (startupComplete \/ serial # "open")

\* the handshake timed out and a command that waited behind the gate was
\* written
C30_Witness ==
  /\ ev.kind = "starttimeout"
  /\ startupComplete
  /\ sess = "ready"
  /\ QueuedIds(ev.writes) # {}
\* C37: for every numeric bearing, negative ones included, degreesToCompass
\* returns one of the 16 names of COMPASS
C37_AlwaysCompassPoint ==
  (calc.fn = "degreesToCompass" /\ calc.arg.numeric) =>
    calc.out \in {COMPASS[i] : i \in 1..Len(COMPASS)}
\* C35: after n push frames given to an empty buffer, the buffer holds the
\* last min(n, PUSH_BUFFER_SIZE) of them in the order they were given
C35_MostRecentInOrder ==
  calc.fn = "bufferPushNotification" =>
    LET n == Len(calc.arg)
        k == IF n < PUSH_BUFFER_SIZE THEN n ELSE PUSH_BUFFER_SIZE IN
      calc.out = SubSeq(calc.arg, n - k + 1, n)

\* two frames more than the capacity were given, the first two different:
\* both have been evicted
C35_Witness ==
  /\ calc.fn = "bufferPushNotification"
  /\ Len(calc.arg) = PUSH_BUFFER_SIZE + 2
  /\ calc.arg[1] # calc.arg[2]
  /\ Len(calc.out) = PUSH_BUFFER_SIZE
  /\ calc.out[Len(calc.out)] = calc.arg[Len(calc.arg)]

RECURSIVE BuiltFrames(_)

\* the frames s is built of, when s is the bytes of buildFrame(type, payload)
\* of one frame after the other, each with a payload of at least one byte
BuiltFrames(s) ==
  IF s = <<>> THEN [ok |-> TRUE, frames |-> <<>>]
  ELSE IF Len(s) <= FRAME_HEADER_LEN \/ s[1] \notin {FRAME_INCOMING, FRAME_OUTGOING}
    THEN [ok |-> FALSE, frames |-> <<>>]
  ELSE LET len == payloadLength(s[2], s[3])
           totalLen == FRAME_HEADER_LEN + len IN
    IF len = 0 \/ Len(s) < totalLen THEN [ok |-> FALSE, frames |-> <<>>]
    ELSE LET payload == SubSeq(s, FRAME_HEADER_LEN + 1, totalLen)
             rest == BuiltFrames(SubSeq(s, totalLen + 1, Len(s))) IN
      [ok |-> rest.ok /\ SubSeq(s, 1, totalLen) = buildFrame(s[1], payload),
       frames |-> <<[type |-> s[1], payload |-> payload]>> \o rest.frames]

\* the last n elements of the sequence q
LastOf(q, n) == SubSeq(q, Len(q) - n + 1, Len(q))

\* C36 as stated: whatever bytes the noise is made of, the frames built
\* after it are all emitted, each with its direction and payload.
C36_ResyncAnyNoise ==
  \A k \in 1..Len(codec.fed) :
    LET after == BuiltFrames(SubSeq(codec.fed, k + 1, Len(codec.fed))) IN
      (after.ok /\ after.frames # <<>>) =>
        /\ Len(codec.frames) >= Len(after.frames)
        /\ LastOf(codec.frames, Len(after.frames)) = after.frames

\* C36: after noise bytes none of which is a direction byte (0x3C, 0x3E),
\* feed emits exactly the frames built after the noise, each with its
\* direction and payload, and keeps no byte
C36_Resync ==
  \A k \in 1..Len(codec.fed) :
    LET after == BuiltFrames(SubSeq(codec.fed, k + 1, Len(codec.fed))) IN
      (/\ after.ok
       /\ after.frames # <<>>
       /\ \A i \in 1..k : codec.fed[i] \notin {FRAME_INCOMING, FRAME_OUTGOING}) =>
        /\ codec.frames = after.frames
        /\ codec.buffer = <<>>

\* two stray bytes were followed by a built frame, fed in two calls or more
C36_Witness ==
  /\ Len(codec.fed) >= 6
  /\ codec.fed[1] = 1
  /\ codec.fed[2] = 0
  /\ BuiltFrames(SubSeq(codec.fed, 3, Len(codec.fed))).ok
  /\ codec.chunks = 2
  /\ Len(codec.frames) = 1
  /\ codec.frames[1].type = FRAME_INCOMING

\* a FromRadio frame is dispatched while the hook is armed for its code
HookMatches ==
  /\ ev'.kind = "frame"
  /\ ev'.dir = FRAME_INCOMING
  /\ pendingResolve # -1
  /\ ev'.code = pendingResolve

\* C34 as stated: the frame that matches the armed hook goes to the hook
\* only, is sent to no client, is not buffered and leaves the in-flight
\* command and the waiters as they were; the hook is then disarmed and a
\* frame that finds no hook armed is not given to it.
C34_HookExclusive ==
  [][/\ HookMatches =>
          /\ ev'.hooked
          /\ ev'.sent = {}
          /\ ev'.pushes = <<>>
          /\ pushBuffer' = pushBuffer
          /\ pendingResolve' = -1
          /\ currentCommand' = currentCommand
          /\ commandQueue' = commandQueue
     /\ (ev'.kind = "frame" /\ pendingResolve = -1) => ~ev'.hooked]_vars

\* C34: the frame that matches the armed hook goes to the hook only, is
\* sent to no client and is not buffered; it releases no command and leaves
\* the timer of the in-flight command alone; the hook is then disarmed and
\* a frame that finds no hook armed is not given to it.  The one change to
\* the command queue is made by the startup that completes on the hook:
\* with no command in flight the first waiter is written.
C34_HookSingleShot ==
  [][/\ HookMatches =>
          /\ ev'.hooked
          /\ ev'.sent = {}
          /\ ev'.pushes = <<>>
          /\ pushBuffer' = pushBuffer
          /\ pendingResolve' = -1
          /\ ev'.rel = 0
          /\ cmdTimers \subseteq cmdTimers'
          /\ currentCommand # NoCmd =>
                currentCommand' = currentCommand /\ commandQueue' = commandQueue
          /\ currentCommand = NoCmd =>
                \/ commandQueue' = commandQueue /\ currentCommand' = NoCmd
                \/ /\ commandQueue # <<>>
                   /\ commandQueue' = Tail(commandQueue)
                   /\ currentCommand'.id = Head(commandQueue).id
                   /\ ev'.writes = <<Head(commandQueue)>>
     /\ (ev'.kind = "frame" /\ pendingResolve = -1) => ~ev'.hooked]_vars

\* the hook took its frame while a client was connected and a command
\* waited: nothing was sent and the waiter was written
C34_Witness ==
  /\ ev.hooked
  /\ ev.sent = {}
  /\ ev.writes # <<>>
  /\ pendingResolve = -1
  /\ \E h \in Handles : clients[h] = "open"

\* C32: resetState leaves the serial handle null, startupComplete false,
\* the frame accumulator empty, no command in flight, no command timer, no
\* startup hook and no waiter, and does not touch the WebSocket clients, the
\* TCP clients and the push buffer
C32_ResetState ==
  [][ev'.kind = "close" =>
       /\ serial' = "lost"
       /\ ~startupComplete'
       /\ codec'.buffer = <<>>
       /\ currentCommand' = NoCmd
       /\ cmdTimers' = {}
       /\ pendingResolve' = -1
       /\ commandQueue' = <<>>
       /\ clients' = clients
       /\ pushBuffer' = pushBuffer
       /\ recv' = recv]_vars

\* the port closed while the hook was armed, a stray byte was in the
\* accumulator, commands had been sent by a client that is still connected
\* and the push buffer held a frame
C32_Witness ==
  /\ ev.kind = "close"
  /\ sq.pc = "wait"
  /\ sq.stale
  /\ pendingResolve = -1
  /\ codec.buffer = <<>>
  /\ resetMark > 1
  /\ \E h \in Handles : clients[h] = "open"
  /\ pushBuffer # <<>>

\* C33: the dispatch of a push frame leaves the in-flight command, its
\* timer, the waiters and the pending drain as they were, releases no
\* command and writes nothing to serial
C33_PushLeavesQueue ==
  [][(ev'.kind = "frame" /\ ev'.pushes # <<>>) =>
       /\ currentCommand' = currentCommand
       /\ commandQueue' = commandQueue
       /\ cmdTimers' = cmdTimers
       /\ drainPending' = drainPending
       /\ outstanding' = outstanding
       /\ ev'.rel = 0
       /\ ev'.writes = <<>>]_vars

\* a push frame was dispatched between a command and its reply, the timer
\* of the command running and another command waiting
C33_Witness ==
  /\ ev.kind = "frame"
  /\ ev.pushes # <<>>
  /\ currentCommand # NoCmd
  /\ currentCommand.timer = "running"
  /\ currentCommand.id \in cmdTimers
  /\ commandQueue # <<>>

\* C38: the tick that weather.start runs at once finds the bridge not ready:
\* it starts no fetch and enqueues nothing, and every command of the weather
\* producer is enqueued by a later tick
C38_FirstTickSkips ==
  [][/\ ev'.kind = "weatherstart" =>
          /\ ~isReady
          /\ wx' \in {"off", "idle"}
          /\ commandQueue' = commandQueue
          /\ currentCommand' = currentCommand
          /\ nextId' = nextId
     /\ ev'.kind = "weather" => wx = "fetching" /\ ev.kind # "weatherstart"]_vars

\* the weather producer was started with a configuration, its first tick
\* skipped, and a later tick has enqueued a report
C38_Witness ==
  /\ ev.kind = "weather"
  /\ wx = "idle"
  /\ nextId > 1

RECURSIVE FramesWithin(_, _)

\* the number of byte strings at the head of q that lie within its first n
\* bytes
FramesWithin(q, n) ==
  IF q = <<>> \/ Len(Head(q)) > n THEN 0
  ELSE 1 + FramesWithin(Tail(q), n - Len(Head(q)))

\* the commands of socket s among the commands of q
FromSocket(q, s) == SelectSeq(q, LAMBDA c : c.source = s)

\* C31: the commands written to serial and waiting for a TCP socket are, in
\* order, the frames its own client has sent in full, each of them one
\* complete frame, whatever the chunks and whatever the other sockets send
C31_TcpFramesWhole ==
  \A s \in TcpSockets :
    LET mine == FromSocket(tcp.written \o tcp.queue, s)
        arrived == Len(Flat(tcp.made[s])) - Len(tcp.pending[s]) IN
      /\ Len(mine) = FramesWithin(tcp.made[s], arrived)
      /\ \A i \in 1..Len(mine) : mine[i].data = tcp.made[s][i]
      /\ \A i \in 1..Len(tcp.written) :
           /\ BuiltFrames(tcp.written[i].data).ok
           /\ Len(BuiltFrames(tcp.written[i].data).frames) = 1

\* the frame of one socket, a direction byte its payload, was written to
\* serial while another socket was in the middle of a frame
C31_Witness ==
  \E s, t \in TcpSockets :
    /\ s # t
    /\ tcp.written # <<>>
    /\ tcp.written[1].source = s
    /\ tcp.written[1].data = buildFrame(FRAME_OUTGOING, <<FRAME_OUTGOING>>)
    /\ tcp.parser[t] # <<>>
    /\ tcp.pending[t] # <<>>

\* C39: from an explicit close() until the next open(), no reconnect timer
\* is pending and no WebSocket of the port is open
C39_CloseIsFinal ==
  (port.explicitClose /\ ~port.opened) =>
    /\ port.timers = 0
    /\ \A k \in Socks : port.socks[k] # "open"
====
